---- MODULE Spec2Model ----
(***************************************************************************)
(* Schedul-AI: the pod history cache (internal/types/pod_cache.go) and the *)
(* node scoring of the scheduler (internal/scheduler/ai_scheduler.go).     *)
(*                                                                         *)
(* Time is counted in hours.  float64 quantities that the code obtains by  *)
(* dividing integers are kept as reduced fractions [num, den]; slices are  *)
(* kept as Go keeps them: a header (array, length) over a backing array.   *)
(***************************************************************************)
EXTENDS Integers, Sequences, FiniteSets, TLC

VARIABLES
    now,             \* the wall clock, time.Now()
    arrays,          \* the backing arrays of the []PodMetrics slices
    nodePodHistory,  \* PodMetricsCache.nodePodHistory
    failureRates,    \* PodMetricsCache.failureRates
    restartRates,    \* PodMetricsCache.restartRates
    lastUpdated,     \* PodMetricsCache.lastUpdated
    recorded,        \* number of UpdateCache calls made so far
    call,            \* the cache call that returned last
    proc,            \* the goroutines that call the cache, each at a place in its call
    mutex,           \* PodMetricsCache.mutex
    committed,       \* the cache as the last writer to unlock the mutex left it
    cluster,         \* the nodes as the API server lists them, with their live usage
    sched,           \* the AIScheduler object
    pred,            \* what the last PredictBestNode returned
    final,           \* a call of makeFinalDecision: its place, its request, its result
    probe,           \* an evaluation of a scoring function: its input and its result
    request,         \* a placement request in predictNode: its place, its context
    dc,              \* the DataCollector goroutine: its place in Start
    metricsChan,     \* DataCollector.metrics, the channel
    listener         \* the metricsListener goroutine: its place

vars == <<now, arrays, nodePodHistory, failureRates, restartRates, lastUpdated,
          recorded, call, proc, mutex, committed, cluster, sched, pred, final, probe,
          request, dc, metricsChan, listener>>

cacheVars == <<arrays, nodePodHistory, failureRates, restartRates, lastUpdated>>

concVars == <<proc, mutex, committed>>

predVars == <<cluster, sched, pred>>

blendVars == <<final, probe>>

flowVars == <<request, dc, metricsChan, listener>>

---------------------------------------------------------------------------
(* Bounds of the model *)

MaxRecords == 3
MaxTime == 336
MaxArr == 8
MaxConcRecords == 4
MaxListed == 2
MaxPredRecords == 2
MaxPods == 20
MaxAnyRecords == 2
MaxWrites == 3
MaxTicks == 1
MaxChan == 1
MaxPodsListed == 2

(* Program constants, in hours *)

RetentionHorizon == 168
DayWindow == 24

Nodes == {"n1", "n2"}
PodShapes == {[Status |-> "Running", RestartCount |-> 0],
              [Status |-> "Failed", RestartCount |-> 3]}
TsOffsets == {0 - RetentionHorizon, 0, 1}
TickSteps == {RetentionHorizon}
Windows == {DayWindow, RetentionHorizon}
ArrIds == 1 .. MaxArr
Writers == {"w1", "w2"}
Readers == {"r1", "r2"}
Procs == Writers \cup Readers

---------------------------------------------------------------------------
(* float64 quotients of integers, as reduced fractions *)

RECURSIVE GCD(_, _)
GCD(a, b) == IF b = 0 THEN a ELSE GCD(b, a % b)

Abs(x) == IF x < 0 THEN 0 - x ELSE x

Rat(n, d) ==
    LET g == GCD(Abs(n), Abs(d))
        s == IF d < 0 THEN 0 - 1 ELSE 1
    IN [num |-> (s * n) \div g, den |-> (s * d) \div g]

RZero == [num |-> 0, den |-> 1]
ROne == [num |-> 1, den |-> 1]
RInt(n) == [num |-> n, den |-> 1]
RAdd(x, y) == Rat(x.num * y.den + y.num * x.den, x.den * y.den)
RSub(x, y) == Rat(x.num * y.den - y.num * x.den, x.den * y.den)
RMul(x, y) == Rat(x.num * y.num, x.den * y.den)
RLess(x, y) == x.num * y.den < y.num * x.den
RLeq(x, y) == x.num * y.den <= y.num * x.den

---------------------------------------------------------------------------
(* Go maps: a missing key reads as the zero value *)

MapGet(m, k, zero) == IF k \in DOMAIN m THEN m[k] ELSE zero

MapPut(m, k, v) == [x \in (DOMAIN m) \cup {k} |-> IF x = k THEN v ELSE m[x]]

EmptyMap == [x \in {} |-> 0]

---------------------------------------------------------------------------
(* PodMetrics and Go slices of it *)

ZeroPodMetrics ==
    [PodName |-> "", NodeName |-> "", Status |-> "", RestartCount |-> 0,
     CreatedAt |-> 0, Timestamp |-> 0, serial |-> 0]

NilSlice == [arr |-> 0, len |-> 0]

Cap(heap, s) == IF s.arr = 0 THEN 0 ELSE Len(heap[s.arr])

Elems(heap, s) == IF s.arr = 0 THEN <<>> ELSE SubSeq(heap[s.arr], 1, s.len)

Alloc(heap) ==
    CHOOSE i \in ArrIds :
        /\ heap[i] = <<>>
        /\ \A j \in ArrIds : j < i => heap[j] # <<>>

RECURSIVE Zeros(_)
Zeros(k) == IF k <= 0 THEN <<>> ELSE <<ZeroPodMetrics>> \o Zeros(k - 1)

SetAt(seq, i, x) == SubSeq(seq, 1, i - 1) \o <<x>> \o SubSeq(seq, i + 1, Len(seq))

(* mutant: the new element is put in front of the old ones *)
GoAppendFront(heap, s, x) ==
    LET newcap == IF s.len < Cap(heap, s) THEN Cap(heap, s)
                  ELSE IF Cap(heap, s) = 0 THEN 1 ELSE 2 * Cap(heap, s)
        a == Alloc(heap)
        content == <<x>> \o Elems(heap, s) \o Zeros(newcap - s.len - 1)
    IN [heap |-> [heap EXCEPT ![a] = content],
        slice |-> [arr |-> a, len |-> s.len + 1]]

(* the pod phases of Kubernetes, the values of PodMetrics.Status that the  *)
(* collector produces                                                      *)
KnownPhases == {"Pending", "Running", "Succeeded", "Failed", "Unknown"}

(* mutant: a status that is no pod phase is stored as "Unknown" *)
GoAppendKnownStatus(heap, s, x) ==
    LET y == IF x.Status \in KnownPhases THEN x ELSE [x EXCEPT !.Status = "Unknown"]
    IN IF s.len < Cap(heap, s)
       THEN [heap |-> [heap EXCEPT ![s.arr] = SetAt(heap[s.arr], s.len + 1, y)],
             slice |-> [arr |-> s.arr, len |-> s.len + 1]]
       ELSE LET newcap == IF Cap(heap, s) = 0 THEN 1 ELSE 2 * Cap(heap, s)
                a == Alloc(heap)
                content == Elems(heap, s) \o <<y>> \o Zeros(newcap - s.len - 1)
            IN [heap |-> [heap EXCEPT ![a] = content],
                slice |-> [arr |-> a, len |-> s.len + 1]]

(* mutant: an element equal in every field of PodMetrics to one already   *)
(* there is not appended                                                   *)
GoAppendOnce(heap, s, x) ==
    IF \E i \in 1 .. s.len :
           [Elems(heap, s)[i] EXCEPT !.serial = 0] = [x EXCEPT !.serial = 0]
    THEN [heap |-> heap, slice |-> s]
    ELSE IF s.len < Cap(heap, s)
    THEN [heap |-> [heap EXCEPT ![s.arr] = SetAt(heap[s.arr], s.len + 1, x)],
          slice |-> [arr |-> s.arr, len |-> s.len + 1]]
    ELSE LET newcap == IF Cap(heap, s) = 0 THEN 1 ELSE 2 * Cap(heap, s)
             a == Alloc(heap)
             content == Elems(heap, s) \o <<x>> \o Zeros(newcap - s.len - 1)
         IN [heap |-> [heap EXCEPT ![a] = content],
             slice |-> [arr |-> a, len |-> s.len + 1]]

(* append(s, x): in place when the capacity allows, else into a new array *)
(* of twice the capacity                                                   *)
GoAppend(heap, s, x) ==
    IF s.len < Cap(heap, s)
    THEN [heap |-> [heap EXCEPT ![s.arr] = SetAt(heap[s.arr], s.len + 1, x)],
          slice |-> [arr |-> s.arr, len |-> s.len + 1]]
    ELSE LET newcap == IF Cap(heap, s) = 0 THEN 1 ELSE 2 * Cap(heap, s)
             a == Alloc(heap)
             content == Elems(heap, s) \o <<x>> \o Zeros(newcap - s.len - 1)
         IN [heap |-> [heap EXCEPT ![a] = content],
             slice |-> [arr |-> a, len |-> s.len + 1]]

(* the garbage collector: an array no slice refers to is gone *)
Collect(heap, roots) == [i \in ArrIds |-> IF i \in roots THEN heap[i] ELSE <<>>]

Roots(hist) == {hist[n].arr : n \in DOMAIN hist}

---------------------------------------------------------------------------
(* PodMetricsCache *)

(* mutant: an event exactly maxAge old is kept (not Before in place of After) *)
RECURSIVE cleanLoopInclusive(_, _, _, _, _)
cleanLoopInclusive(heap, metrics, i, filtered, cutoffTime) ==
    IF i > Len(metrics) THEN [heap |-> heap, slice |-> filtered]
    ELSE IF metrics[i].Timestamp >= cutoffTime
         THEN LET r == GoAppend(heap, filtered, metrics[i])
                  h == IF r.slice.arr # filtered.arr /\ filtered.arr # 0
                       THEN [r.heap EXCEPT ![filtered.arr] = <<>>]
                       ELSE r.heap
              IN cleanLoopInclusive(h, metrics, i + 1, r.slice, cutoffTime)
         ELSE cleanLoopInclusive(heap, metrics, i + 1, filtered, cutoffTime)

(* mutant: only the events of the last 24 hours are kept *)
RECURSIVE cleanLoopDay(_, _, _, _, _)
cleanLoopDay(heap, metrics, i, filtered, cutoffTime) ==
    IF i > Len(metrics) THEN [heap |-> heap, slice |-> filtered]
    ELSE IF metrics[i].Timestamp > cutoffTime + RetentionHorizon - DayWindow
         THEN LET r == GoAppend(heap, filtered, metrics[i])
                  h == IF r.slice.arr # filtered.arr /\ filtered.arr # 0
                       THEN [r.heap EXCEPT ![filtered.arr] = <<>>]
                       ELSE r.heap
              IN cleanLoopDay(h, metrics, i + 1, r.slice, cutoffTime)
         ELSE cleanLoopDay(heap, metrics, i + 1, filtered, cutoffTime)

(* the loop body of cleanOldData over metrics[i..], filtered being the     *)
(* local slice that starts nil; an array the local slice has outgrown is   *)
(* referred to by nothing else                                             *)
RECURSIVE cleanLoop(_, _, _, _, _)
cleanLoop(heap, metrics, i, filtered, cutoffTime) ==
    IF i > Len(metrics) THEN [heap |-> heap, slice |-> filtered]
    ELSE IF metrics[i].Timestamp > cutoffTime
         THEN LET r == GoAppend(heap, filtered, metrics[i])
                  h == IF r.slice.arr # filtered.arr /\ filtered.arr # 0
                       THEN [r.heap EXCEPT ![filtered.arr] = <<>>]
                       ELSE r.heap
              IN cleanLoop(h, metrics, i + 1, r.slice, cutoffTime)
         ELSE cleanLoop(heap, metrics, i + 1, filtered, cutoffTime)

(* mutant: nothing is pruned *)
cleanOldDataKeepsAll(heap, hist, nodeName, maxAge, t) == [heap |-> heap, hist |-> hist]

(* mutant: the write prunes the list of every node in the map *)
RECURSIVE cleanNodes(_, _, _, _)
cleanNodes(heap, hist, nodes, cutoffTime) ==
    IF nodes = {} THEN [heap |-> heap, hist |-> hist]
    ELSE LET n == CHOOSE x \in nodes : TRUE
             r == cleanLoop(heap, Elems(heap, hist[n]), 1, NilSlice, cutoffTime)
         IN cleanNodes(r.heap, MapPut(hist, n, r.slice), nodes \ {n}, cutoffTime)

cleanOldDataEveryNode(heap, hist, nodeName, maxAge, t) ==
    cleanNodes(heap, hist, DOMAIN hist, t - maxAge)

cleanOldData(heap, hist, nodeName, maxAge, t) ==
    LET r == cleanLoop(heap, Elems(heap, MapGet(hist, nodeName, NilSlice)), 1,
                       NilSlice, t - maxAge)
    IN [heap |-> r.heap, hist |-> MapPut(hist, nodeName, r.slice)]

(* mutant: every event that is not Running counts as failed *)
CountFailedNotRunning(metrics) ==
    Cardinality({i \in 1 .. Len(metrics) : metrics[i].Status # "Running"})

CountFailed(metrics) == Cardinality({i \in 1 .. Len(metrics) : metrics[i].Status = "Failed"})

RECURSIVE SumRestarts(_)
SumRestarts(metrics) ==
    IF metrics = <<>> THEN 0
    ELSE Head(metrics).RestartCount + SumRestarts(Tail(metrics))

(* mutant: the failure rate is computed from totalRestarts *)
updateStatisticsSwapped(metrics, fr, rr, lu, nodeName, t) ==
    IF Len(metrics) = 0
    THEN [failureRates |-> fr, restartRates |-> rr, lastUpdated |-> lu]
    ELSE [failureRates |-> MapPut(fr, nodeName, Rat(SumRestarts(metrics), Len(metrics))),
          restartRates |-> MapPut(rr, nodeName, Rat(SumRestarts(metrics), Len(metrics))),
          lastUpdated |-> MapPut(lu, nodeName, t)]

(* mutant: the rates of the written node are stored for every node *)
updateStatisticsAllNodes(metrics, fr, rr, lu, nodeName, t) ==
    IF Len(metrics) = 0
    THEN [failureRates |-> fr, restartRates |-> rr, lastUpdated |-> lu]
    ELSE [failureRates |-> [n \in Nodes |-> Rat(CountFailed(metrics), Len(metrics))],
          restartRates |-> [n \in Nodes |-> Rat(SumRestarts(metrics), Len(metrics))],
          lastUpdated |-> MapPut(lu, nodeName, t)]

updateStatistics(metrics, fr, rr, lu, nodeName, t) ==
    IF Len(metrics) = 0
    THEN [failureRates |-> fr, restartRates |-> rr, lastUpdated |-> lu]
    ELSE [failureRates |-> MapPut(fr, nodeName, Rat(CountFailed(metrics), Len(metrics))),
          restartRates |-> MapPut(rr, nodeName, Rat(SumRestarts(metrics), Len(metrics))),
          lastUpdated |-> MapPut(lu, nodeName, t)]

History(nodeName) == Elems(arrays, MapGet(nodePodHistory, nodeName, NilSlice))

NoCall == [op |-> "none", node |-> "", window |-> 0, at |-> 0, ev |-> ZeroPodMetrics]

PodEvents(t, n) ==
    {[PodName |-> "p1", NodeName |-> c.n, Status |-> c.s.Status,
      RestartCount |-> c.s.RestartCount, CreatedAt |-> t, Timestamp |-> t + c.o,
      serial |-> n] :
        c \in [n : Nodes, s : PodShapes, o : TsOffsets]}

(* UpdateCache from the Lock to the deferred Unlock; the append, the pruning
   and the statistics are each computed once, as the code computes them *)
updateCache(podMetrics) ==
    \E a \in {GoAppend(arrays, MapGet(nodePodHistory, podMetrics.NodeName, NilSlice),
                       podMetrics)} :
    \E c \in {cleanOldData(a.heap, MapPut(nodePodHistory, podMetrics.NodeName, a.slice),
                           podMetrics.NodeName, RetentionHorizon, now)} :
    \E s \in {updateStatistics(Elems(c.heap, c.hist[podMetrics.NodeName]), failureRates,
                               restartRates, lastUpdated, podMetrics.NodeName, now)} :
       /\ recorded < MaxRecords
       /\ recorded' = recorded + 1
       /\ nodePodHistory' = c.hist
       /\ arrays' = Collect(c.heap, Roots(c.hist))
       /\ failureRates' = s.failureRates
       /\ restartRates' = s.restartRates
       /\ lastUpdated' = s.lastUpdated
       /\ call' = [op |-> "UpdateCache", node |-> podMetrics.NodeName, window |-> 0,
                   at |-> now, ev |-> podMetrics]

UpdateCache(podMetrics) ==
    /\ updateCache(podMetrics)
    /\ UNCHANGED <<now, concVars, predVars, blendVars, flowVars>>

GetNodeMetrics(nodeName) == MapGet(nodePodHistory, nodeName, NilSlice)

GetFailureRate(nodeName) == MapGet(failureRates, nodeName, RZero)

GetRestartRate(nodeName) == MapGet(restartRates, nodeName, RZero)

(* mutant: the read of a map leaves a zero entry for a key it did not have *)
ReadInserts(op, nodeName, timeWindow) ==
    /\ call' = [NoCall EXCEPT !.op = op, !.node = nodeName, !.window = timeWindow,
                              !.at = now]
    /\ failureRates' = MapPut(failureRates, nodeName, MapGet(failureRates, nodeName, RZero))
    /\ UNCHANGED <<now, arrays, nodePodHistory, restartRates, lastUpdated, recorded,
                   concVars, predVars, blendVars, flowVars>>

(* a read of the cache returns; the cache is as it was *)
Read(op, nodeName, timeWindow) ==
    /\ call' = [NoCall EXCEPT !.op = op, !.node = nodeName, !.window = timeWindow,
                              !.at = now]
    /\ UNCHANGED <<now, cacheVars, recorded, concVars, predVars, blendVars, flowVars>>

---------------------------------------------------------------------------
(* NodeAnalysis *)

ZeroNodeAnalysis ==
    [NodeName |-> "", TotalPods |-> 0, FailedPods |-> 0, SuccessfulPods |-> 0,
     FailureRate |-> RZero, AverageRestartCount |-> RZero, AverageLifetime |-> RZero,
     StabilityScore |-> RZero, Recommendations |-> <<>>]

RECURSIVE SumLifetime(_, _)
SumLifetime(metrics, t) ==
    IF metrics = <<>> THEN 0
    ELSE (t - Head(metrics).CreatedAt) + SumLifetime(Tail(metrics), t)

(* mutant: the stability score is kept at 0 or above *)
calculateNodeAnalysisClamped(metrics, t) ==
    IF Len(metrics) = 0 THEN ZeroNodeAnalysis
    ELSE LET failedPods == CountFailed(metrics)
             failureRate == Rat(failedPods, Len(metrics))
             avgRestartCount == Rat(SumRestarts(metrics), Len(metrics))
             avgLifetime == Rat(SumLifetime(metrics, t), Len(metrics))
             raw == RSub(RSub(ROne, failureRate), RMul(avgRestartCount, Rat(1, 10)))
             stabilityScore == IF RLess(raw, RZero) THEN RZero ELSE raw
             r1 == IF RLess(Rat(1, 10), failureRate)
                   THEN <<"high failure rate">> ELSE <<>>
             r2 == IF RLess(RInt(2), avgRestartCount)
                   THEN <<"high restart rate">> ELSE <<>>
             r3 == IF RLess(stabilityScore, Rat(7, 10))
                   THEN <<"low stability">> ELSE <<>>
         IN [NodeName |-> metrics[1].NodeName,
             TotalPods |-> Len(metrics),
             FailedPods |-> failedPods,
             SuccessfulPods |-> Len(metrics) - failedPods,
             FailureRate |-> failureRate,
             AverageRestartCount |-> avgRestartCount,
             AverageLifetime |-> avgLifetime,
             StabilityScore |-> stabilityScore,
             Recommendations |-> r1 \o r2 \o r3]

(* mutant: a failure rate of exactly 0.1 is recommended against *)
calculateNodeAnalysisInclusive(metrics, t) ==
    IF Len(metrics) = 0 THEN ZeroNodeAnalysis
    ELSE LET failedPods == CountFailed(metrics)
             failureRate == Rat(failedPods, Len(metrics))
             avgRestartCount == Rat(SumRestarts(metrics), Len(metrics))
             avgLifetime == Rat(SumLifetime(metrics, t), Len(metrics))
             stabilityScore == RSub(RSub(ROne, failureRate),
                                    RMul(avgRestartCount, Rat(1, 10)))
             r1 == IF RLeq(Rat(1, 10), failureRate)
                   THEN <<"high failure rate">> ELSE <<>>
             r2 == IF RLess(RInt(2), avgRestartCount)
                   THEN <<"high restart rate">> ELSE <<>>
             r3 == IF RLess(stabilityScore, Rat(7, 10))
                   THEN <<"low stability">> ELSE <<>>
         IN [NodeName |-> metrics[1].NodeName,
             TotalPods |-> Len(metrics),
             FailedPods |-> failedPods,
             SuccessfulPods |-> Len(metrics) - failedPods,
             FailureRate |-> failureRate,
             AverageRestartCount |-> avgRestartCount,
             AverageLifetime |-> avgLifetime,
             StabilityScore |-> stabilityScore,
             Recommendations |-> r1 \o r2 \o r3]

(* t is the time.Since clock.  AverageLifetime is the exact quotient: the  *)
(* code's integer division of nanoseconds compares the same way against a  *)
(* whole number of hours.                                                  *)
calculateNodeAnalysis(metrics, t) ==
    IF Len(metrics) = 0 THEN ZeroNodeAnalysis
    ELSE LET failedPods == CountFailed(metrics)
             failureRate == Rat(failedPods, Len(metrics))
             avgRestartCount == Rat(SumRestarts(metrics), Len(metrics))
             avgLifetime == Rat(SumLifetime(metrics, t), Len(metrics))
             stabilityScore == RSub(RSub(ROne, failureRate),
                                    RMul(avgRestartCount, Rat(1, 10)))
             r1 == IF RLess(Rat(1, 10), failureRate)
                   THEN <<"high failure rate">> ELSE <<>>
             r2 == IF RLess(RInt(2), avgRestartCount)
                   THEN <<"high restart rate">> ELSE <<>>
             r3 == IF RLess(stabilityScore, Rat(7, 10))
                   THEN <<"low stability">> ELSE <<>>
         IN [NodeName |-> metrics[1].NodeName,
             TotalPods |-> Len(metrics),
             FailedPods |-> failedPods,
             SuccessfulPods |-> Len(metrics) - failedPods,
             FailureRate |-> failureRate,
             AverageRestartCount |-> avgRestartCount,
             AverageLifetime |-> avgLifetime,
             StabilityScore |-> stabilityScore,
             Recommendations |-> r1 \o r2 \o r3]

(* the recentMetrics of GetNodeAnalysis at time t *)
RecentMetrics(nodeName, timeWindow, t) ==
    LET cutoffTime == t - timeWindow
        After(m) == m.Timestamp > cutoffTime
    IN SelectSeq(History(nodeName), After)

GetNodeAnalysis(nodeName, timeWindow, t) ==
    calculateNodeAnalysis(RecentMetrics(nodeName, timeWindow, t), t)

Tick(d) ==
    /\ now + d <= MaxTime
    /\ now' = now + d
    /\ UNCHANGED <<cacheVars, recorded, call, concVars, predVars, blendVars, flowVars>>

IdleProc ==
    [pc |-> "idle", op |-> "none", node |-> "", window |-> 0, ev |-> ZeroPodMetrics,
     slice |-> NilSlice, obs |-> [events |-> <<>>, rate |-> RZero], at |-> 0]

CacheView(heap, hist, fr, rr) ==
    [n \in Nodes |-> [events |-> Elems(heap, MapGet(hist, n, NilSlice)),
                      fr |-> MapGet(fr, n, RZero),
                      rr |-> MapGet(rr, n, RZero)]]

NoPrediction ==
    [called |-> FALSE, err |-> "nil", nil |-> TRUE,
     best |-> [NodeName |-> "", Score |-> RZero, Reason |-> <<>>], scores |-> <<>>,
     evals |-> <<>>, at |-> 0, repeated |-> FALSE]

NoResponse == [kind |-> "none", status |-> 0, body |-> EmptyMap]

NoFinal ==
    [pc |-> "idle", node |-> "", goScore |-> RZero, resp |-> NoResponse,
     score |-> RZero, reason |-> <<>>]

NoProbe == [fn |-> "none", input |-> <<>>, output |-> <<>>]

NoRequest == [pc |-> "idle", cancelled |-> FALSE]

IdleCollector ==
    [pc |-> "select", done |-> FALSE, ticks |-> 0, nodes |-> <<>>, pods |-> <<>>]

IdleListener == [pc |-> "select", done |-> FALSE]

CacheInit ==
    /\ now = 0
    /\ arrays = [i \in ArrIds |-> <<>>]
    /\ nodePodHistory = EmptyMap
    /\ failureRates = EmptyMap
    /\ restartRates = EmptyMap
    /\ lastUpdated = EmptyMap
    /\ recorded = 0
    /\ call = NoCall
    /\ proc = [p \in Procs |-> IdleProc]
    /\ mutex = [writer |-> "none", readers |-> {}]
    /\ committed = CacheView(arrays, nodePodHistory, failureRates, restartRates)
    /\ pred = NoPrediction
    /\ final = NoFinal
    /\ probe = NoProbe
    /\ request = NoRequest
    /\ dc = IdleCollector
    /\ metricsChan = <<>>
    /\ listener = IdleListener

Init ==
    /\ CacheInit
    /\ cluster = <<>>
    /\ sched = [metricsClient |-> "nil"]

Next ==
    \/ \E e \in PodEvents(now, recorded + 1) : UpdateCache(e)
    \/ \E n \in Nodes : Read("GetNodeMetrics", n, 0)
    \/ \E n \in Nodes : Read("GetFailureRate", n, 0)
    \/ \E n \in Nodes : Read("GetRestartRate", n, 0)
    \/ \E n \in Nodes, w \in Windows : Read("GetNodeAnalysis", n, w)
    \/ \E d \in TickSteps : Tick(d)

Spec == Init /\ [][Next]_vars

---------------------------------------------------------------------------
(* The cache calls step by step, as goroutines interleave under the        *)
(* sync.RWMutex: Lock waits until no goroutine holds the mutex, RLock      *)
(* until no writer holds it.                                               *)

ConcShapes == PodShapes
ConcOffsets == {0}
ConcNodes == {"n1"}

ConcEvents(t, n) ==
    {[PodName |-> "p1", NodeName |-> c.n, Status |-> c.s.Status,
      RestartCount |-> c.s.RestartCount, CreatedAt |-> t, Timestamp |-> t + c.o,
      serial |-> n] :
        c \in [n : ConcNodes, s : ConcShapes, o : ConcOffsets]}

ReadOps == {"GetNodeMetrics", "GetFailureRate", "GetRestartRate", "GetNodeAnalysis"}

ConcRoots(hist, pr) == Roots(hist) \cup {pr[p].slice.arr : p \in Procs}

(* UpdateCache: pmc.mutex.Lock(), then the append of line 33 *)
Lock(p, podMetrics) ==
    /\ proc[p].pc = "idle"
    /\ recorded < MaxConcRecords
    /\ mutex.writer = "none"
    /\ mutex.readers = {}
    /\ mutex' = [mutex EXCEPT !.writer = p]
    /\ recorded' = recorded + 1
    /\ LET a == GoAppend(arrays, MapGet(nodePodHistory, podMetrics.NodeName, NilSlice),
                         podMetrics)
       IN /\ nodePodHistory' = MapPut(nodePodHistory, podMetrics.NodeName, a.slice)
          /\ proc' = [proc EXCEPT ![p] = [IdleProc EXCEPT !.pc = "clean",
                                             !.op = "UpdateCache",
                                             !.node = podMetrics.NodeName]]
          /\ arrays' = Collect(a.heap, ConcRoots(nodePodHistory', proc'))
    /\ UNCHANGED <<predVars, blendVars, flowVars, now, failureRates, restartRates, lastUpdated, call, committed>>

(* UpdateCache: cleanOldData *)
CleanStep(p) ==
    /\ proc[p].pc = "clean"
    /\ LET c == cleanOldData(arrays, nodePodHistory, proc[p].node,
                             RetentionHorizon, now)
       IN /\ nodePodHistory' = c.hist
          /\ proc' = [proc EXCEPT ![p].pc = "stats"]
          /\ arrays' = Collect(c.heap, ConcRoots(c.hist, proc'))
    /\ UNCHANGED <<predVars, blendVars, flowVars, now, failureRates, restartRates, lastUpdated, recorded, call,
                   mutex, committed>>

(* UpdateCache: updateStatistics, then the deferred pmc.mutex.Unlock() and *)
(* the return                                                              *)
Unlock(p) ==
    /\ proc[p].pc = "stats"
    /\ LET s == updateStatistics(History(proc[p].node), failureRates, restartRates,
                                 lastUpdated, proc[p].node, now)
       IN /\ failureRates' = s.failureRates
          /\ restartRates' = s.restartRates
          /\ lastUpdated' = s.lastUpdated
          /\ committed' = CacheView(arrays, nodePodHistory, s.failureRates,
                                    s.restartRates)
    /\ mutex' = [mutex EXCEPT !.writer = "none"]
    /\ proc' = [proc EXCEPT ![p] = IdleProc]
    /\ UNCHANGED <<predVars, blendVars, flowVars, now, arrays, nodePodHistory, recorded, call>>

(* what a read of the cache at time t yields *)
Observe(op, nodeName, timeWindow, t, view) ==
    LET After(m) == m.Timestamp > t - timeWindow
    IN CASE op = "GetNodeMetrics" ->
              [events |-> view[nodeName].events, rate |-> RZero]
         [] op = "GetFailureRate" -> [events |-> <<>>, rate |-> view[nodeName].fr]
         [] op = "GetRestartRate" -> [events |-> <<>>, rate |-> view[nodeName].rr]
         [] OTHER -> [events |-> SelectSeq(view[nodeName].events, After),
                      rate |-> RZero]

(* mutant: RLock does not wait for the writer to leave *)
RLockIgnoresWriter(p, op, nodeName, timeWindow) ==
    /\ proc[p].pc = "idle"
    /\ mutex' = [mutex EXCEPT !.readers = @ \cup {p}]
    /\ proc' = [proc EXCEPT ![p] =
                   [IdleProc EXCEPT
                       !.pc = "runlock", !.op = op, !.node = nodeName,
                       !.window = timeWindow,
                       !.at = IF op = "GetNodeAnalysis" THEN now ELSE 0,
                       !.slice = IF op = "GetNodeMetrics"
                                 THEN GetNodeMetrics(nodeName) ELSE NilSlice,
                       !.obs = Observe(op, nodeName, timeWindow, now,
                                       CacheView(arrays, nodePodHistory,
                                                 failureRates, restartRates))]]
    /\ arrays' = Collect(arrays, ConcRoots(nodePodHistory, proc'))
    /\ UNCHANGED <<predVars, blendVars, flowVars, now, nodePodHistory, failureRates, restartRates, lastUpdated,
                   recorded, call, committed>>

(* a read: pmc.mutex.RLock(), then the body of the read; the caller has    *)
(* let go of what its last call returned                                   *)
RLock(p, op, nodeName, timeWindow) ==
    /\ proc[p].pc = "idle"
    /\ mutex.writer = "none"
    /\ mutex' = [mutex EXCEPT !.readers = @ \cup {p}]
    /\ proc' = [proc EXCEPT ![p] =
                   [IdleProc EXCEPT
                       !.pc = "runlock", !.op = op, !.node = nodeName,
                       !.window = timeWindow,
                       !.at = IF op = "GetNodeAnalysis" THEN now ELSE 0,
                       !.slice = IF op = "GetNodeMetrics"
                                 THEN GetNodeMetrics(nodeName) ELSE NilSlice,
                       !.obs = Observe(op, nodeName, timeWindow, now,
                                       CacheView(arrays, nodePodHistory,
                                                 failureRates, restartRates))]]
    /\ arrays' = Collect(arrays, ConcRoots(nodePodHistory, proc'))
    /\ UNCHANGED <<predVars, blendVars, flowVars, now, nodePodHistory, failureRates, restartRates, lastUpdated,
                   recorded, call, committed>>

(* the deferred pmc.mutex.RUnlock(), and the return: the caller keeps the  *)
(* slice GetNodeMetrics returned                                           *)
RUnlock(p) ==
    /\ proc[p].pc = "runlock"
    /\ mutex' = [mutex EXCEPT !.readers = @ \ {p}]
    /\ proc' = [proc EXCEPT ![p] = IF proc[p].op = "GetNodeMetrics"
                                   THEN [proc[p] EXCEPT !.pc = "idle"]
                                   ELSE IdleProc]
    /\ UNCHANGED <<predVars, blendVars, flowVars, now, cacheVars, recorded, call, committed>>

NextConc ==
    \/ \E p \in Writers : \E e \in ConcEvents(now, recorded + 1) : Lock(p, e)
    \/ \E p \in Writers : CleanStep(p)
    \/ \E p \in Writers : Unlock(p)
    \/ \E p \in Readers, op \in ReadOps, n \in ConcNodes :
           RLock(p, op, n, IF op = "GetNodeAnalysis" THEN DayWindow ELSE 0)
    \/ \E p \in Readers : RUnlock(p)
    \/ \E d \in TickSteps : Tick(d)

SpecConc == Init /\ [][NextConc]_vars

---------------------------------------------------------------------------
(* UpdateCache with the statement of line 33 in its two halves: the read   *)
(* of pmc.nodePodHistory[nodeName] and the assignment of the appended      *)
(* slice to it.                                                            *)

(* each writer records the pod it watches, named after it *)
WriterEvents(p, t, n) ==
    {[PodName |-> p, NodeName |-> c.n, Status |-> c.s.Status,
      RestartCount |-> c.s.RestartCount, CreatedAt |-> t, Timestamp |-> t + c.o,
      serial |-> n] :
        c \in [n : ConcNodes, s : ConcShapes, o : ConcOffsets]}

(* mutant: Lock does not wait for the writer that holds the mutex *)
WLockIgnoresWriter(p, podMetrics) ==
    /\ proc[p].pc = "idle"
    /\ recorded < MaxWrites
    /\ mutex.readers = {}
    /\ mutex' = [mutex EXCEPT !.writer = p]
    /\ recorded' = recorded + 1
    /\ proc' = [proc EXCEPT ![p] = [IdleProc EXCEPT !.pc = "load", !.op = "UpdateCache",
                                                    !.node = podMetrics.NodeName,
                                                    !.ev = podMetrics]]
    /\ UNCHANGED <<predVars, blendVars, flowVars, now, cacheVars, call, committed>>

(* UpdateCache: pmc.mutex.Lock() *)
WLock(p, podMetrics) ==
    /\ proc[p].pc = "idle"
    /\ recorded < MaxWrites
    /\ mutex.writer = "none"
    /\ mutex.readers = {}
    /\ mutex' = [mutex EXCEPT !.writer = p]
    /\ recorded' = recorded + 1
    /\ proc' = [proc EXCEPT ![p] = [IdleProc EXCEPT !.pc = "load", !.op = "UpdateCache",
                                                    !.node = podMetrics.NodeName,
                                                    !.ev = podMetrics]]
    /\ UNCHANGED <<predVars, blendVars, flowVars, now, cacheVars, call, committed>>

(* line 33, right side: pmc.nodePodHistory[nodeName] is read *)
LoadHistory(p) ==
    /\ proc[p].pc = "load"
    /\ proc' = [proc EXCEPT ![p].pc = "store",
                            ![p].slice = MapGet(nodePodHistory, proc[p].node, NilSlice)]
    /\ UNCHANGED <<predVars, blendVars, flowVars, now, cacheVars, recorded, call, mutex,
                   committed>>

(* line 33: append, and the assignment to pmc.nodePodHistory[nodeName] *)
StoreHistory(p) ==
    /\ proc[p].pc = "store"
    /\ LET a == GoAppend(arrays, proc[p].slice, proc[p].ev)
       IN /\ nodePodHistory' = MapPut(nodePodHistory, proc[p].node, a.slice)
          /\ proc' = [proc EXCEPT ![p].pc = "clean", ![p].slice = NilSlice]
          /\ arrays' = Collect(a.heap, ConcRoots(nodePodHistory', proc'))
    /\ UNCHANGED <<predVars, blendVars, flowVars, now, failureRates, restartRates,
                   lastUpdated, recorded, call, mutex, committed>>

WriterReadOps == {"GetFailureRate"}

NextWriters ==
    \/ \E p \in Writers : \E e \in WriterEvents(p, now, recorded + 1) : WLock(p, e)
    \/ \E p \in Writers : LoadHistory(p)
    \/ \E p \in Writers : StoreHistory(p)
    \/ \E p \in Writers : CleanStep(p)
    \/ \E p \in Writers : Unlock(p)
    \/ \E p \in Readers, op \in WriterReadOps, n \in ConcNodes : RLock(p, op, n, 0)
    \/ \E p \in Readers : RUnlock(p)
    \/ \E d \in TickSteps : Tick(d)

SpecWriters == Init /\ [][NextWriters]_vars

---------------------------------------------------------------------------
(* AIScheduler: the score of a node and the choice of the best node *)

(* scheduler.scoring of config.yaml *)
CPUWeight == 30
MemoryWeight == 30
NodeReadyWeight == 20
TaintWeight == 10
FailedPodsWeight == 20
RestartWeight == 10

LifetimeBonus == 10
LongLifetime == 24
ShortLifetime == 1

Reason(text, args) == [text |-> text, args |-> args]

stabilityTier(stabilityScore) ==
    IF RLess(Rat(8, 10), stabilityScore)
    THEN [score |-> RInt(FailedPodsWeight), reason |-> Reason("Yuksek kararlilik", <<>>)]
    ELSE IF RLess(Rat(6, 10), stabilityScore)
    THEN [score |-> Rat(FailedPodsWeight, 2), reason |-> Reason("Orta kararlilik", <<>>)]
    ELSE [score |-> RZero, reason |-> Reason("Dusuk kararlilik", <<>>)]

(* mutant: a failure rate of exactly 0.1 still counts as medium *)
failureTierInclusive(failureRate) ==
    IF RLess(failureRate, Rat(5, 100))
    THEN [score |-> RInt(FailedPodsWeight),
          reason |-> Reason("Dusuk basarisizlik orani", <<>>)]
    ELSE IF RLeq(failureRate, Rat(1, 10))
    THEN [score |-> Rat(FailedPodsWeight, 2),
          reason |-> Reason("Orta basarisizlik orani", <<failureRate>>)]
    ELSE [score |-> RInt(0 - FailedPodsWeight),
          reason |-> Reason("Yuksek basarisizlik orani", <<failureRate>>)]

failureTier(failureRate) ==
    IF RLess(failureRate, Rat(5, 100))
    THEN [score |-> RInt(FailedPodsWeight),
          reason |-> Reason("Dusuk basarisizlik orani", <<>>)]
    ELSE IF RLess(failureRate, Rat(1, 10))
    THEN [score |-> Rat(FailedPodsWeight, 2),
          reason |-> Reason("Orta basarisizlik orani", <<failureRate>>)]
    ELSE [score |-> RInt(0 - FailedPodsWeight),
          reason |-> Reason("Yuksek basarisizlik orani", <<failureRate>>)]

(* mutant: an average of exactly one restart no longer counts as low *)
restartTierStrict(avgRestart) ==
    IF RLess(avgRestart, RInt(1))
    THEN [score |-> RInt(RestartWeight), reason |-> Reason("Dusuk restart orani", <<>>)]
    ELSE IF RLeq(avgRestart, RInt(2))
    THEN [score |-> RZero, reason |-> Reason("Orta restart orani", <<avgRestart>>)]
    ELSE [score |-> RInt(0 - RestartWeight),
          reason |-> Reason("Yuksek restart orani", <<avgRestart>>)]

restartTier(avgRestart) ==
    IF RLeq(avgRestart, RInt(1))
    THEN [score |-> RInt(RestartWeight), reason |-> Reason("Dusuk restart orani", <<>>)]
    ELSE IF RLeq(avgRestart, RInt(2))
    THEN [score |-> RZero, reason |-> Reason("Orta restart orani", <<avgRestart>>)]
    ELSE [score |-> RInt(0 - RestartWeight),
          reason |-> Reason("Yuksek restart orani", <<avgRestart>>)]

lifetimeTier(avgLifetime) ==
    IF RLess(RInt(LongLifetime), avgLifetime)
    THEN [score |-> RInt(LifetimeBonus), reason |-> Reason("Uzun pod yasam suresi", <<>>)]
    ELSE IF RLess(RInt(ShortLifetime), avgLifetime)
    THEN [score |-> RZero, reason |-> Reason("Normal pod yasam suresi", <<>>)]
    ELSE [score |-> RInt(0 - LifetimeBonus),
          reason |-> Reason("Kisa pod yasam suresi", <<>>)]

(* the body of analyzePodMetrics after the 24 hour analysis is read; Terms *)
(* are the four amounts added to score, in the order they are added        *)
scoreAnalysis(analysis) ==
    LET stab == stabilityTier(analysis.StabilityScore)
        fail == failureTier(analysis.FailureRate)
        rest == restartTier(analysis.AverageRestartCount)
        life == lifetimeTier(analysis.AverageLifetime)
    IN [Score |-> RAdd(RAdd(stab.score, fail.score), RAdd(rest.score, life.score)),
        Reasons |-> <<stab.reason, fail.reason, rest.reason, life.reason>>,
        Terms |-> <<stab.score, fail.score, rest.score, life.score>>]

(* mutant: the failure rate is read from the stored aggregate, not from    *)
(* the analysis                                                            *)
analyzePodMetricsStored(nodeName, t) ==
    scoreAnalysis([GetNodeAnalysis(nodeName, DayWindow, t)
                       EXCEPT !.FailureRate = GetFailureRate(nodeName)])

(* mutant: a node without events in the window gets no history term *)
analyzePodMetricsSkipsEmpty(nodeName, t) ==
    IF GetNodeAnalysis(nodeName, DayWindow, t).TotalPods = 0
    THEN [Score |-> RZero, Reasons |-> <<>>, Terms |-> <<RZero, RZero, RZero, RZero>>]
    ELSE scoreAnalysis(GetNodeAnalysis(nodeName, DayWindow, t))

analyzePodMetrics(nodeName, t) == scoreAnalysis(GetNodeAnalysis(nodeName, DayWindow, t))

(* mutant: the term grows with the usage *)
UsageScoreOfUse(weight, usage, capacity) ==
    LET sc == RMul(RInt(weight), Rat(usage, capacity))
    IN IF RLess(sc, RZero) THEN RZero ELSE sc

(* the usage term of a resource: weight * (1 - usage/capacity), not below 0 *)
UsageScore(weight, usage, capacity) ==
    LET sc == RMul(RInt(weight), RSub(ROne, Rat(usage, capacity)))
    IN IF RLess(sc, RZero) THEN RZero ELSE sc

(* mutant: the usage of the node is read though the scheduler has no      *)
(* metrics client                                                          *)
LiveUsageWithoutClient(node, field) ==
    IF node.usage.err THEN 0 ELSE node.usage[field]

(* MetricsClient.GetNodeMetrics as calculateNodeScore uses it: 0 when the  *)
(* scheduler has no metrics client or the read fails                       *)
LiveUsage(node, field) ==
    IF sched.metricsClient # "nil"
    THEN IF node.usage.err THEN 0 ELSE node.usage[field]
    ELSE 0

HasReadyTrue(conditions) ==
    \E i \in 1 .. Len(conditions) :
        conditions[i].Type = "Ready" /\ conditions[i].Status = "True"

(* mutant: the loop over the conditions has no break *)
RECURSIVE readyLoopNoBreak(_, _)
readyLoopNoBreak(conditions, i) ==
    IF i > Len(conditions) THEN [added |-> 0, reasons |-> <<>>, ready |-> FALSE]
    ELSE LET rest == readyLoopNoBreak(conditions, i + 1)
         IN IF conditions[i].Type = "Ready" /\ conditions[i].Status = "True"
            THEN [added |-> NodeReadyWeight + rest.added,
                  reasons |-> <<Reason("Node hazir", <<>>)>> \o rest.reasons,
                  ready |-> TRUE]
            ELSE rest

(* the loop over node.Status.Conditions[i..]: what it adds to score, what  *)
(* it appends to reasons and the value of ready after it                   *)
RECURSIVE readyLoop(_, _)
readyLoop(conditions, i) ==
    IF i > Len(conditions) THEN [added |-> 0, reasons |-> <<>>, ready |-> FALSE]
    ELSE IF conditions[i].Type = "Ready" /\ conditions[i].Status = "True"
    THEN [added |-> NodeReadyWeight, reasons |-> <<Reason("Node hazir", <<>>)>>,
          ready |-> TRUE]
    ELSE readyLoop(conditions, i + 1)

(* the readiness block: the loop, then "Node hazir degil" if !ready *)
readiness(loop) ==
    [added |-> RInt(loop.added),
     reasons |-> IF loop.ready THEN loop.reasons
                 ELSE loop.reasons \o <<Reason("Node hazir degil", <<>>)>>]

(* the sum and the reasons of calculateNodeScore from what each block adds *)
totalScore(cpuOn, cpuScore, cpuReason, memOn, memScore, memReason, rdy, taintFree, podAnalysis) ==
    [score |-> RAdd(RAdd(IF cpuOn THEN cpuScore ELSE RZero,
                         IF memOn THEN memScore ELSE RZero),
                    RAdd(RAdd(rdy.added,
                              IF taintFree THEN RInt(TaintWeight) ELSE RZero),
                         podAnalysis.Score)),
     terms |-> <<IF cpuOn THEN cpuScore ELSE RZero, IF memOn THEN memScore ELSE RZero,
                 rdy.added, IF taintFree THEN RInt(TaintWeight) ELSE RZero,
                 podAnalysis.Score>>,
     reasons |-> (IF cpuOn THEN <<cpuReason>> ELSE <<>>)
                 \o (IF memOn THEN <<memReason>> ELSE <<>>)
                 \o rdy.reasons
                 \o <<Reason(IF taintFree THEN "Taint yok" ELSE "Taint var", <<>>)>>
                 \o podAnalysis.Reasons]

(* the return of calculateNodeScore: the reasons prefixed with the total *)
withTotal(t) ==
    [score |-> t.score, terms |-> t.terms,
     reason |-> <<Reason("Toplam skor", <<t.score>>)>> \o t.reasons]

(* the body of calculateNodeScore, podAnalysis being what analyzePodMetrics *)
(* returns for the node; a capacity of 0 stands for a missing or a zero     *)
(* Allocatable entry                                                        *)
sumNodeScore(node, podAnalysis) ==
    withTotal(totalScore(
        node.cpu > 0,
        UsageScore(CPUWeight, LiveUsage(node, "cpu"), node.cpu),
        Reason("CPU skoru", <<UsageScore(CPUWeight, LiveUsage(node, "cpu"), node.cpu),
                              RInt(LiveUsage(node, "cpu")), RInt(node.cpu)>>),
        node.memory > 0,
        UsageScore(MemoryWeight, LiveUsage(node, "mem"), node.memory),
        Reason("Memory skoru",
               <<UsageScore(MemoryWeight, LiveUsage(node, "mem"), node.memory),
                 RInt(LiveUsage(node, "mem")), RInt(node.memory)>>),
        readiness(readyLoop(node.Conditions, 1)),
        node.Taints = 0,
        podAnalysis))

calculateNodeScore(node, t) == sumNodeScore(node, analyzePodMetrics(node.Name, t))

(* the loop of PredictBestNode over nodes.Items[i..] *)
RECURSIVE bestNodeLoop(_, _, _, _)
bestNodeLoop(nodes, i, best, t) ==
    IF i > Len(nodes) THEN best
    ELSE LET r == calculateNodeScore(nodes[i], t)
         IN IF RLess(best.bestScore, r.score)
            THEN bestNodeLoop(nodes, i + 1,
                     [nil |-> FALSE, bestScore |-> r.score,
                      bestNode |-> [NodeName |-> nodes[i].Name, Score |-> r.score,
                                    Reason |-> r.reason]], t)
            ELSE bestNodeLoop(nodes, i + 1, best, t)

NoBest ==
    [nil |-> TRUE, bestScore |-> RInt(0 - 1),
     bestNode |-> [NodeName |-> "", Score |-> RZero, Reason |-> <<>>]]

Scores(nodes, t) == [i \in 1 .. Len(nodes) |-> calculateNodeScore(nodes[i], t).score]

(* one evaluation of calculateNodeScore as PredictBestNode makes it: what  *)
(* it read (the node, the live usage, the 24 hour analysis) and what it     *)
(* returned                                                                 *)
Evaluation(node, analysis, result) ==
    [node |-> node,
     live |-> [cpu |-> LiveUsage(node, "cpu"), mem |-> LiveUsage(node, "mem")],
     analysis |-> analysis, score |-> result.score, reason |-> result.reason]

Evals(nodes, t) ==
    [i \in 1 .. Len(nodes) |->
        Evaluation(nodes[i], GetNodeAnalysis(nodes[i].Name, DayWindow, t),
                   calculateNodeScore(nodes[i], t))]

(* whether a call at time t reads, for some node, the analysis the call     *)
(* before it read at another time                                           *)
Repeats(last, evals, t) ==
    /\ last.called /\ last.err = "nil" /\ last.at # t
    /\ \E i \in 1 .. Len(evals) : evals[i].analysis = last.evals[i].analysis

(* what PredictBestNode returns; podFound, listed: whether the pod lookup  *)
(* and the node listing succeed                                            *)
Prediction(podFound, listed) ==
    IF ~podFound
    THEN [NoPrediction EXCEPT !.called = TRUE, !.err = "pod bulunamadi"]
    ELSE IF ~listed
    THEN [NoPrediction EXCEPT !.called = TRUE, !.err = "node listesi alinamadi"]
    ELSE LET b == bestNodeLoop(cluster, 1, NoBest, now)
         IN [called |-> TRUE, err |-> "nil", nil |-> b.nil, best |-> b.bestNode,
             scores |-> Scores(cluster, now), evals |-> Evals(cluster, now),
             at |-> now, repeated |-> Repeats(pred, Evals(cluster, now), now)]

PredictBestNode(podFound, listed) ==
    /\ pred' = Prediction(podFound, listed)
    /\ UNCHANGED <<now, cacheVars, recorded, call, concVars, cluster, sched,
                 blendVars, flowVars>>

NodeKinds ==
    {[cpu |-> 4, memory |-> 8,
      Conditions |-> <<[Type |-> "Ready", Status |-> "True"]>>, Taints |-> 0,
      usage |-> [err |-> FALSE, cpu |-> 1, mem |-> 4]],
     [cpu |-> 4, memory |-> 8,
      Conditions |-> <<[Type |-> "Ready", Status |-> "False"]>>, Taints |-> 0,
      usage |-> [err |-> TRUE, cpu |-> 0, mem |-> 0]],
     [cpu |-> 4, memory |-> 8,
      Conditions |-> <<[Type |-> "Ready", Status |-> "True"]>>, Taints |-> 1,
      usage |-> [err |-> FALSE, cpu |-> 6, mem |-> 8]],
     [cpu |-> 0, memory |-> 0, Conditions |-> <<>>, Taints |-> 1,
      usage |-> [err |-> TRUE, cpu |-> 0, mem |-> 0]]}

NodeObject(name, k) ==
    [Name |-> name, cpu |-> k.cpu, memory |-> k.memory, Conditions |-> k.Conditions,
     Taints |-> k.Taints, usage |-> k.usage]

(* the listings: up to MaxListed nodes, no name twice *)
Listings ==
    UNION {{l \in [1 .. k -> {NodeObject(n, kd) : n \in Nodes, kd \in NodeKinds}] :
               \A i, j \in 1 .. k : i # j => l[i].Name # l[j].Name} :
           k \in 0 .. MaxListed}

(* the events the collector records: stamped with the time of collection,  *)
(* of a pod just created that fails or of a pod a day old that runs        *)
CollectedShapes ==
    {[Status |-> "Failed", RestartCount |-> 3, age |-> 0],
     [Status |-> "Running", RestartCount |-> 0, age |-> 25]}

CollectedEvents(t, n) ==
    {[PodName |-> "p1", NodeName |-> c.n, Status |-> c.s.Status,
      RestartCount |-> c.s.RestartCount, CreatedAt |-> t - c.s.age, Timestamp |-> t,
      serial |-> n] :
        c \in [n : Nodes, s : CollectedShapes]}

(* collectPodMetrics for one pod of the listing: its event goes to the cache *)
collectPod(podMetrics) ==
    /\ recorded < MaxPredRecords
    /\ UpdateCache(podMetrics)

InitPredict ==
    /\ CacheInit
    /\ cluster \in Listings
    /\ sched \in [metricsClient : {"nil", "set"}]

NextPredict ==
    \/ \E e \in CollectedEvents(now, recorded + 1) : collectPod(e)
    \/ \E podFound, listed \in BOOLEAN : PredictBestNode(podFound, listed)
    \/ \E d \in TickSteps : Tick(d)

SpecPredict == InitPredict /\ [][NextPredict]_vars

---------------------------------------------------------------------------
(* The DataCollector goroutine and the metricsListener goroutine, with the *)
(* channel between them.  MaxChan stands for the capacity of the channel,  *)
(* which is 1000 (collector.go line 34).  The listings of the API server   *)
(* are taken as answered.                                                  *)

(* the pods a listing returns: up to MaxPodsListed, each on a node and in  *)
(* one of the shapes the collector sees                                    *)
PodListings ==
    UNION {[1 .. k -> [n : Nodes, s : CollectedShapes]] : k \in 0 .. MaxPodsListed}

(* Start: the ticker fires; collectNodeMetrics lists the nodes *)
collectNodeMetrics(listed) ==
    /\ dc.pc = "select"
    /\ dc.ticks < MaxTicks
    /\ dc' = [dc EXCEPT !.pc = "sendNode", !.ticks = dc.ticks + 1,
                        !.nodes = IF listed
                                  THEN [i \in 1 .. Len(cluster) |-> cluster[i].Name]
                                  ELSE <<>>,
                        !.pods = <<>>]
    /\ UNCHANGED <<now, cacheVars, recorded, call, concVars, predVars, blendVars,
                   request, metricsChan, listener>>

(* dc.metrics <- m: waits while the channel is full *)
Send(m) ==
    /\ Len(metricsChan) < MaxChan
    /\ metricsChan' = Append(metricsChan, m)
    /\ UNCHANGED <<now, request, listener>>

(* collectNodeMetrics: the NodeMetrics of the next node goes to the channel *)
SendNodeMetrics ==
    /\ dc.pc = "sendNode"
    /\ dc.nodes # <<>>
    /\ Send([kind |-> "NodeMetrics", name |-> Head(dc.nodes)])
    /\ dc' = [dc EXCEPT !.nodes = Tail(dc.nodes)]
    /\ UNCHANGED <<cacheVars, recorded, call, concVars, predVars, blendVars>>

(* collectNodeMetrics has returned; collectPodMetrics lists the pods *)
collectPodMetrics(listed, pods) ==
    /\ dc.pc = "sendNode"
    /\ dc.nodes = <<>>
    /\ dc' = [dc EXCEPT !.pc = IF listed /\ pods # <<>> THEN "update" ELSE "select",
                        !.pods = IF listed THEN pods ELSE <<>>]
    /\ UNCHANGED <<now, cacheVars, recorded, call, concVars, predVars, blendVars,
                   request, metricsChan, listener>>

PodMetricsOf(pod, t, n) ==
    [PodName |-> "p1", NodeName |-> pod.n, Status |-> pod.s.Status,
     RestartCount |-> pod.s.RestartCount, CreatedAt |-> t - pod.s.age, Timestamp |-> t,
     serial |-> n]

(* collectPodMetrics: the PodMetrics of the next pod goes to the cache *)
UpdatePod ==
    /\ dc.pc = "update"
    /\ updateCache(PodMetricsOf(Head(dc.pods), now, recorded + 1))
    /\ dc' = [dc EXCEPT !.pc = "sendPod"]
    /\ UNCHANGED <<now, concVars, predVars, blendVars, request, metricsChan, listener>>

(* collectPodMetrics: the same PodMetrics goes to the channel *)
SendPodMetrics ==
    /\ dc.pc = "sendPod"
    /\ Send([kind |-> "PodMetrics", name |-> Head(dc.pods).n])
    /\ dc' = [dc EXCEPT !.pods = Tail(dc.pods),
                        !.pc = IF Tail(dc.pods) = <<>> THEN "select" ELSE "update"]
    /\ UNCHANGED <<cacheVars, recorded, call, concVars, predVars, blendVars>>

(* metricsListener takes a metric from the channel; sendMetricToAI posts   *)
(* it with http.Post, which has no deadline                                *)
metricsListener ==
    /\ listener.pc = "select"
    /\ metricsChan # <<>>
    /\ metricsChan' = Tail(metricsChan)
    /\ listener' = [listener EXCEPT !.pc = "post"]
    /\ UNCHANGED <<now, cacheVars, recorded, call, concVars, predVars, blendVars,
                   request, dc>>

(* the service, or the network, ends the request of sendMetricToAI *)
MetricPosted ==
    /\ listener.pc = "post"
    /\ listener' = [listener EXCEPT !.pc = "select"]
    /\ UNCHANGED <<now, cacheVars, recorded, call, concVars, predVars, blendVars,
                   request, dc, metricsChan>>

Collector ==
    \/ \E listed \in BOOLEAN : collectNodeMetrics(listed)
    \/ SendNodeMetrics
    \/ \E listed \in BOOLEAN, pods \in PodListings : collectPodMetrics(listed, pods)
    \/ UpdatePod
    \/ SendPodMetrics

NextCollect ==
    \/ Collector
    \/ metricsListener
    \/ MetricPosted

(* the collector reads the names of the listed nodes and nothing else of   *)
(* them: the listings of healthy nodes are enough                          *)
InitCollect ==
    /\ CacheInit
    /\ cluster \in {l \in Listings :
                       \A i \in 1 .. Len(l) : l[i].Taints = 0 /\ ~l[i].usage.err}
    /\ sched \in [metricsClient : {"nil", "set"}]

SpecCollect == InitCollect /\ [][NextCollect]_vars

(* both goroutines run whenever they can take a step; nothing obliges the  *)
(* service to answer the listener                                          *)
SpecCollectLive == SpecCollect /\ WF_vars(Collector) /\ WF_vars(metricsListener)

---------------------------------------------------------------------------
(* The same two goroutines with their contexts.  main gives each of them   *)
(* a context.Background() of its own; here the owner of a context may      *)
(* cancel it at any time.  A goroutine looks at ctx.Done() in the select   *)
(* at the head of its loop and nowhere else.                               *)

(* the context given to DataCollector.Start is cancelled *)
CancelStart ==
    /\ ~dc.done
    /\ dc.pc # "returned"
    /\ dc' = [dc EXCEPT !.done = TRUE]
    /\ UNCHANGED <<now, cacheVars, recorded, call, concVars, predVars, blendVars,
                   request, metricsChan, listener>>

(* the context given to AIScheduler.Start is cancelled *)
CancelListener ==
    /\ ~listener.done
    /\ listener.pc # "returned"
    /\ listener' = [listener EXCEPT !.done = TRUE]
    /\ UNCHANGED <<now, cacheVars, recorded, call, concVars, predVars, blendVars,
                   request, dc, metricsChan>>

(* Start: the select takes case <-ctx.Done() and Start returns *)
StartReturns ==
    /\ dc.pc = "select"
    /\ dc.done
    /\ dc' = [dc EXCEPT !.pc = "returned"]
    /\ UNCHANGED <<now, cacheVars, recorded, call, concVars, predVars, blendVars,
                   request, metricsChan, listener>>

(* metricsListener: the select takes case <-ctx.Done() and the goroutine   *)
(* returns                                                                 *)
ListenerReturns ==
    /\ listener.pc = "select"
    /\ listener.done
    /\ listener' = [listener EXCEPT !.pc = "returned"]
    /\ UNCHANGED <<now, cacheVars, recorded, call, concVars, predVars, blendVars,
                   request, dc, metricsChan>>

NextStop ==
    \/ Collector
    \/ metricsListener
    \/ MetricPosted
    \/ CancelStart
    \/ CancelListener
    \/ StartReturns
    \/ ListenerReturns

SpecStop == InitCollect /\ [][NextStop]_vars

(* both goroutines run whenever they can take a step; a select with more   *)
(* than one case ready picks among them at random, so a case that is ready *)
(* again and again is taken in the end; the service is taken to answer     *)
(* every request of the listener, so that a goroutine that stays is kept   *)
(* by the program alone                                                    *)
SpecStopLive ==
    /\ SpecStop
    /\ WF_vars(Collector) /\ WF_vars(metricsListener) /\ WF_vars(MetricPosted)
    /\ SF_vars(StartReturns) /\ SF_vars(ListenerReturns)

---------------------------------------------------------------------------
(* A placement request step by step: predictNode calls PredictBestNode,    *)
(* whose calls to the API server are made with context.Background(); the   *)
(* context of the HTTP request is not handed on                            *)

Outstanding == {"podGet", "nodeList", "usage"}

(* the handler has bound the JSON of the request; PredictBestNode sends    *)
(* Pods(namespace).Get                                                     *)
predictNode ==
    /\ request.pc \in {"idle", "done"}
    /\ request' = [pc |-> "podGet", cancelled |-> FALSE]
    /\ UNCHANGED <<now, cacheVars, recorded, call, concVars, predVars, blendVars,
                   dc, metricsChan, listener>>

(* the client of the request goes away or its deadline passes: the context *)
(* of the HTTP request is cancelled, which no call under way looks at      *)
Cancel ==
    /\ request.pc \in Outstanding
    /\ ~request.cancelled
    /\ request' = [request EXCEPT !.cancelled = TRUE]
    /\ UNCHANGED <<now, cacheVars, recorded, call, concVars, predVars, blendVars,
                   dc, metricsChan, listener>>

UsageReads ==
    /\ sched.metricsClient # "nil"
    /\ \E i \in 1 .. Len(cluster) : cluster[i].cpu > 0 \/ cluster[i].memory > 0

(* the API server answers Pods(namespace).Get; Nodes().List is sent next *)
PodsGet(podFound) ==
    /\ request.pc = "podGet"
    /\ request' = [request EXCEPT !.pc = IF podFound THEN "nodeList" ELSE "return"]
    /\ pred' = IF podFound THEN pred ELSE Prediction(FALSE, FALSE)
    /\ UNCHANGED <<now, cacheVars, recorded, call, concVars, cluster, sched, blendVars,
                   dc, metricsChan, listener>>

(* the API server answers Nodes().List; the scores are computed at once    *)
(* when no usage is to be read                                             *)
NodesList(listed) ==
    /\ request.pc = "nodeList"
    /\ request' = [request EXCEPT !.pc = IF listed /\ UsageReads THEN "usage"
                                         ELSE "return"]
    /\ pred' = IF listed /\ UsageReads THEN pred ELSE Prediction(TRUE, listed)
    /\ UNCHANGED <<now, cacheVars, recorded, call, concVars, cluster, sched, blendVars,
                   dc, metricsChan, listener>>

(* the metrics API has answered the NodeMetricses().Get calls of           *)
(* calculateNodeScore; the loop of PredictBestNode is over                 *)
NodeMetricsGet ==
    /\ request.pc = "usage"
    /\ request' = [request EXCEPT !.pc = "return"]
    /\ pred' = Prediction(TRUE, TRUE)
    /\ UNCHANGED <<now, cacheVars, recorded, call, concVars, cluster, sched, blendVars,
                   dc, metricsChan, listener>>

(* PredictBestNode has returned: predictNode writes the response *)
WriteResponse ==
    /\ request.pc = "return"
    /\ request' = [request EXCEPT !.pc = "done"]
    /\ UNCHANGED <<now, cacheVars, recorded, call, concVars, predVars, blendVars,
                   dc, metricsChan, listener>>

NextCancel ==
    \/ predictNode
    \/ Cancel
    \/ \E podFound \in BOOLEAN : PodsGet(podFound)
    \/ \E listed \in BOOLEAN : NodesList(listed)
    \/ NodeMetricsGet
    \/ WriteResponse

SpecCancel == InitPredict /\ [][NextCancel]_vars

(* the handler runs whenever it can take a step; nothing obliges the API   *)
(* server or the metrics API to answer                                     *)
SpecCancelLive == SpecCancel /\ WF_vars(WriteResponse)

---------------------------------------------------------------------------
(* makeFinalDecision: the local score blended with the answer of the AI    *)
(* service                                                                 *)

StatusOK == 200

AIShare == Rat(7, 10)
GoShare == Rat(3, 10)
DefaultConfidence == Rat(1, 2)

(* a JSON value as json.Decode puts it in a map[string]interface{}: a      *)
(* number becomes a float64, a string a string, null a nil interface       *)
JNumber(x) == [type |-> "number", num |-> x]
JString == [type |-> "string", num |-> RZero]
JNull == [type |-> "null", num |-> RZero]

(* mutant: any value under the key passes for a number *)
AsFloat64Lenient(m, key) ==
    IF key \in DOMAIN m
    THEN [ok |-> TRUE, v |-> m[key].num]
    ELSE [ok |-> FALSE, v |-> RZero]

(* m[key].(float64) *)
AsFloat64(m, key) ==
    IF key \in DOMAIN m /\ m[key].type = "number"
    THEN [ok |-> TRUE, v |-> m[key].num]
    ELSE [ok |-> FALSE, v |-> RZero]

(* getAIAnalysis once http.Post has returned with resp *)
getAIAnalysis(resp) ==
    IF resp.kind = "error"
    THEN [err |-> "AI API'ye istek gonderilemedi", body |-> EmptyMap]
    ELSE IF resp.status # StatusOK
    THEN [err |-> "AI API hata dondurdu", body |-> EmptyMap]
    ELSE IF resp.kind = "garbage"
    THEN [err |-> "AI response parse edilemedi", body |-> EmptyMap]
    ELSE [err |-> "nil", body |-> resp.body]

GoOnly(goScore) ==
    [score |-> goScore, reason |-> Reason("Sadece Go algoritmasi kullanildi", <<>>)]

(* mutant: the confidence is left out of the product *)
blendWithoutConfidence(goScore, aiAnalysis) ==
    IF aiAnalysis.err # "nil" THEN GoOnly(goScore)
    ELSE LET aiScore == AsFloat64(aiAnalysis.body, "score")
             conf == AsFloat64(aiAnalysis.body, "confidence")
             confidence == IF conf.ok THEN conf.v ELSE DefaultConfidence
             finalScore == RAdd(RMul(aiScore.v, AIShare), RMul(goScore, GoShare))
         IN IF ~aiScore.ok THEN GoOnly(goScore)
            ELSE [score |-> finalScore,
                  reason |-> Reason("Final skor",
                                    <<finalScore, aiScore.v, goScore, confidence>>)]

(* the body of makeFinalDecision after getAIAnalysis has returned *)
blend(goScore, aiAnalysis) ==
    IF aiAnalysis.err # "nil" THEN GoOnly(goScore)
    ELSE LET aiScore == AsFloat64(aiAnalysis.body, "score")
             conf == AsFloat64(aiAnalysis.body, "confidence")
             confidence == IF conf.ok THEN conf.v ELSE DefaultConfidence
             finalScore == RAdd(RMul(RMul(aiScore.v, confidence), AIShare),
                                RMul(goScore, GoShare))
         IN IF ~aiScore.ok THEN GoOnly(goScore)
            ELSE [score |-> finalScore,
                  reason |-> Reason("Final skor",
                                    <<finalScore, aiScore.v, goScore, confidence>>)]

makeFinalDecision(goScore, resp) == blend(goScore, getAIAnalysis(resp))

GoScores == {RInt(0 - 40), RInt(20), RInt(150)}

JScores == {JNumber(RZero), JNumber(RInt(50)), JNumber(RInt(100)), JString, JNull}
JConfidences == {JNumber(ROne), JNumber(Rat(9, 10)), JNumber(RZero), JString, JNull}

Bodies ==
    {EmptyMap}
    \cup {[k \in {"score"} |-> sc] : sc \in JScores}
    \cup {[k \in {"confidence"} |-> c] : c \in JConfidences}
    \cup {[k \in {"score", "confidence"} |-> IF k = "score" THEN b.sc ELSE b.c] :
             b \in [sc : JScores, c : JConfidences]}

(* what http.Post and the decoding can come back with *)
Responses ==
    {[kind |-> "error", status |-> 0, body |-> EmptyMap],
     [kind |-> "json", status |-> 500, body |-> EmptyMap],
     [kind |-> "garbage", status |-> StatusOK, body |-> EmptyMap]}
    \cup {[kind |-> "json", status |-> StatusOK, body |-> b] : b \in Bodies}

(* makeFinalDecision is called and its request leaves with http.Post, which *)
(* has no deadline: the call waits until the service answers                *)
Post(nodeName, goScore) ==
    /\ final.pc \in {"idle", "done"}
    /\ final' = [NoFinal EXCEPT !.pc = "waiting", !.node = nodeName, !.goScore = goScore]
    /\ UNCHANGED <<now, cacheVars, recorded, call, concVars, predVars, probe, flowVars>>

(* the service, or the network, ends the request *)
Respond(resp) ==
    /\ final.pc = "waiting"
    /\ final.resp.kind = "none"
    /\ final' = [final EXCEPT !.resp = resp]
    /\ UNCHANGED <<now, cacheVars, recorded, call, concVars, predVars, probe, flowVars>>

(* http.Post has returned: the rest of makeFinalDecision runs *)
Decide ==
    /\ final.pc = "waiting"
    /\ final.resp.kind # "none"
    /\ LET d == makeFinalDecision(final.goScore, final.resp)
       IN final' = [final EXCEPT !.pc = "done", !.score = d.score, !.reason = d.reason]
    /\ UNCHANGED <<now, cacheVars, recorded, call, concVars, predVars, probe, flowVars>>

NextFinal ==
    \/ \E n \in Nodes, g \in GoScores : Post(n, g)
    \/ \E r \in Responses : Respond(r)
    \/ Decide

SpecFinal == Init /\ [][NextFinal]_vars

(* the scheduler runs the goroutine of makeFinalDecision whenever it can    *)
(* take a step; nothing obliges the service to answer                       *)
SpecFinalLive == SpecFinal /\ WF_vars(Decide)

---------------------------------------------------------------------------
(* makeFinalDecision step by step, beside the goroutines that write the    *)
(* cache: extractFeaturesForAI reads the 24 hour and the 7 day analysis,   *)
(* each under the read lock of GetNodeAnalysis, before the request leaves  *)

Caller == "s1"

(* makeFinalDecision is called; getAIAnalysis calls extractFeaturesForAI,  *)
(* whose first statement is GetNodeAnalysis(nodeName, 24h)                 *)
extractFeaturesForAI(nodeName, goScore) ==
    /\ final.pc \in {"idle", "done"}
    /\ final' = [NoFinal EXCEPT !.pc = "rlock24", !.node = nodeName,
                                !.goScore = goScore]
    /\ UNCHANGED <<now, cacheVars, recorded, call, concVars, predVars, probe, flowVars>>

(* GetNodeAnalysis: pmc.mutex.RLock(), then the body *)
AnalysisRLock ==
    /\ final.pc \in {"rlock24", "rlock168"}
    /\ mutex.writer = "none"
    /\ mutex' = [mutex EXCEPT !.readers = @ \cup {Caller}]
    /\ final' = [final EXCEPT !.pc = IF final.pc = "rlock24" THEN "held24"
                                     ELSE "held168"]
    /\ UNCHANGED <<now, cacheVars, recorded, call, proc, committed, predVars, probe,
                   flowVars>>

(* mutant: GetNodeAnalysis returns without releasing the read lock *)
AnalysisRUnlockKeeps ==
    /\ final.pc \in {"held24", "held168"}
    /\ final' = [final EXCEPT !.pc = IF final.pc = "held24" THEN "rlock168"
                                     ELSE "post"]
    /\ UNCHANGED <<now, cacheVars, recorded, call, concVars, predVars, probe, flowVars>>

(* GetNodeAnalysis: the deferred pmc.mutex.RUnlock() and the return; after *)
(* the 24 hour analysis come the usage and the capacity of the node, then  *)
(* GetNodeAnalysis(nodeName, 7 days)                                       *)
AnalysisRUnlock ==
    /\ final.pc \in {"held24", "held168"}
    /\ mutex' = [mutex EXCEPT !.readers = @ \ {Caller}]
    /\ final' = [final EXCEPT !.pc = IF final.pc = "held24" THEN "rlock168"
                                     ELSE "post"]
    /\ UNCHANGED <<now, cacheVars, recorded, call, proc, committed, predVars, probe,
                   flowVars>>

(* the features are put together and marshalled, and http.Post sends them *)
PostFeatures ==
    /\ final.pc = "post"
    /\ final' = [final EXCEPT !.pc = "waiting"]
    /\ UNCHANGED <<now, cacheVars, recorded, call, concVars, predVars, probe, flowVars>>

PlainResponses == {r \in Responses : r.body = EmptyMap}

NextBlend ==
    \/ \E p \in Writers : \E e \in ConcEvents(now, recorded + 1) : Lock(p, e)
    \/ \E p \in Writers : CleanStep(p)
    \/ \E p \in Writers : Unlock(p)
    \/ \E n \in ConcNodes, g \in GoScores : extractFeaturesForAI(n, g)
    \/ AnalysisRLock
    \/ AnalysisRUnlock
    \/ PostFeatures
    \/ \E r \in PlainResponses : Respond(r)
    \/ Decide

SpecBlend == Init /\ [][NextBlend]_vars

---------------------------------------------------------------------------
(* The analysis and its score as functions of a list of events *)

RestartCounts == {0, 1, 2, 3}
PodAges == {0, 1, 2, 24, 25}

(* total events of one node, the first failed of them Failed, every pod    *)
(* restarted restartCount times and created age hours before t             *)
RECURSIVE MakeMetrics(_, _, _, _, _)
MakeMetrics(total, failed, restartCount, age, t) ==
    IF total = 0 THEN <<>>
    ELSE MakeMetrics(total - 1, failed, restartCount, age, t)
         \o <<[PodName |-> "p1", NodeName |-> "n1",
               Status |-> IF total <= failed THEN "Failed" ELSE "Running",
               RestartCount |-> restartCount, CreatedAt |-> t - age, Timestamp |-> t,
               serial |-> total]>>

(* analyzePodMetrics on the analysis of such a list, once in a behaviour *)
Analyze(total, failed, restartCount, age) ==
    /\ probe.fn = "none"
    /\ probe' = [fn |-> "analyzePodMetrics",
                 input |-> [total |-> total, failed |-> failed,
                            restartCount |-> restartCount, age |-> age,
                            analysis |-> calculateNodeAnalysis(
                                MakeMetrics(total, failed, restartCount, age, now), now)],
                 output |-> scoreAnalysis(calculateNodeAnalysis(
                                MakeMetrics(total, failed, restartCount, age, now), now))]
    /\ UNCHANGED <<now, cacheVars, recorded, call, concVars, predVars, final, flowVars>>

RestartsEach == {1, 3}

(* total events of one node, the first failed of them Failed, the last     *)
(* restarted of them with each restarts, the others with none              *)
RECURSIVE MixedMetrics(_, _, _, _, _)
MixedMetrics(total, failed, restarted, each, t) ==
    IF total = 0 THEN <<>>
    ELSE MixedMetrics(total - 1, failed, restarted - 1, each, t)
         \o <<[PodName |-> "p1", NodeName |-> "n1",
               Status |-> IF total <= failed THEN "Failed" ELSE "Running",
               RestartCount |-> IF restarted > 0 THEN each ELSE 0,
               CreatedAt |-> t, Timestamp |-> t, serial |-> total]>>

(* calculateNodeAnalysis on such a list, once in a behaviour *)
AnalyzeMixed(total, failed, restarted, each) ==
    /\ probe.fn = "none"
    /\ probe' = [fn |-> "calculateNodeAnalysis",
                 input |-> [total |-> total, failed |-> failed,
                            restarts |-> restarted * each],
                 output |-> calculateNodeAnalysis(
                                MixedMetrics(total, failed, restarted, each, now), now)]
    /\ UNCHANGED <<now, cacheVars, recorded, call, concVars, predVars, final, flowVars>>

(* the lists whose stability is computed here as the code computes it: a  *)
(* fifth of the events failed with two restarts each gives 3/5 as a         *)
(* quotient but 0.6000000000000001 as the float64 difference                *)
(* 1.0 - 0.2 - 2*0.1 of calculateNodeAnalysis, the one case within these    *)
(* bounds where the two fall on different sides of a tier boundary          *)
ExactStability(total, failed, restartCount) ==
    ~(total > 0 /\ 5 * failed = total /\ restartCount = 2)

NextTiers ==
    \/ \E total \in 0 .. MaxPods, r \in RestartCounts, age \in PodAges :
          \E failed \in 0 .. total :
              ExactStability(total, failed, r) /\ Analyze(total, failed, r, age)
    \/ \E total \in 0 .. MaxPods, each \in RestartsEach :
          \E failed, restarted \in 0 .. total :
              AnalyzeMixed(total, failed, restarted, each)

SpecTiers == Init /\ [][NextTiers]_vars

---------------------------------------------------------------------------
(* calculateNodeScore as a function of the node, of the live usage and of  *)
(* the history of the node                                                 *)

ConditionLists ==
    {<<>>,
     <<[Type |-> "Ready", Status |-> "True"]>>,
     <<[Type |-> "Ready", Status |-> "False"]>>,
     <<[Type |-> "Ready", Status |-> "Unknown"]>>,
     <<[Type |-> "MemoryPressure", Status |-> "True"]>>,
     <<[Type |-> "MemoryPressure", Status |-> "False"],
       [Type |-> "Ready", Status |-> "True"]>>,
     <<[Type |-> "Ready", Status |-> "True"], [Type |-> "Ready", Status |-> "True"]>>,
     <<[Type |-> "Ready", Status |-> "False"], [Type |-> "Ready", Status |-> "True"]>>}

Usages ==
    {[err |-> TRUE, cpu |-> 0, mem |-> 0],
     [err |-> FALSE, cpu |-> 1, mem |-> 4],
     [err |-> FALSE, cpu |-> 6, mem |-> 2]}

ScoredNodes ==
    [Name : {"n1"}, cpu : {0, 4}, memory : {0, 8}, Conditions : ConditionLists,
     Taints : {0, 1}, usage : Usages]

(* the histories of the node: none, four good events, four bad ones *)
ScoredHistories ==
    {[total |-> 0, failed |-> 0, restartCount |-> 0, age |-> 0],
     [total |-> 4, failed |-> 0, restartCount |-> 0, age |-> 25],
     [total |-> 4, failed |-> 2, restartCount |-> 3, age |-> 0]}

(* calculateNodeScore on such a node, once in a behaviour *)
ScoreNode(node, h) ==
    /\ probe.fn = "none"
    /\ probe' = [fn |-> "calculateNodeScore",
                 input |-> [node |-> node, metricsClient |-> sched.metricsClient,
                            podAnalysis |-> scoreAnalysis(calculateNodeAnalysis(
                                MakeMetrics(h.total, h.failed, h.restartCount, h.age,
                                            now), now))],
                 output |-> sumNodeScore(node, scoreAnalysis(calculateNodeAnalysis(
                                MakeMetrics(h.total, h.failed, h.restartCount, h.age,
                                            now), now)))]
    /\ UNCHANGED <<now, cacheVars, recorded, call, concVars, predVars, final, flowVars>>

NextScore == \E node \in ScoredNodes, h \in ScoredHistories : ScoreNode(node, h)

(* the scheduler with or without a metrics client; nothing is listed *)
InitScore ==
    /\ CacheInit
    /\ cluster = <<>>
    /\ sched \in [metricsClient : {"nil", "set"}]

SpecScore == InitScore /\ [][NextScore]_vars

---------------------------------------------------------------------------
(* The cache written by any caller: events of any status *)

AnyShapes == {[Status |-> "Running", RestartCount |-> 0],
              [Status |-> "Evicted", RestartCount |-> 1],
              [Status |-> "", RestartCount |-> 0],
              [Status |-> "Failed", RestartCount |-> 1],
              [Status |-> "Pending", RestartCount |-> 0],
              [Status |-> "Unknown", RestartCount |-> 0]}

AnyEvents(t, n) ==
    {[PodName |-> "p1", NodeName |-> c.n, Status |-> c.s.Status,
      RestartCount |-> c.s.RestartCount, CreatedAt |-> t, Timestamp |-> t + c.o,
      serial |-> n] :
        c \in [n : Nodes, s : AnyShapes, o : TsOffsets]}

recordAny(podMetrics) ==
    /\ recorded < MaxAnyRecords
    /\ UpdateCache(podMetrics)

NextRecord ==
    \/ \E e \in AnyEvents(now, recorded + 1) : recordAny(e)
    \/ \E n \in Nodes : Read("GetNodeMetrics", n, 0)
    \/ \E d \in TickSteps : Tick(d)

SpecRecord == Init /\ [][NextRecord]_vars

---------------------------------------------------------------------------
(* Properties of the cache, checked under Spec *)

Serials(metrics) == {metrics[i].serial : i \in 1 .. Len(metrics)}

(* C1: when UpdateCache has returned, every event in the written node's    *)
(* history has a Timestamp strictly later than (time of the write - 7      *)
(* days): no older event of that node survives the write.                  *)
C1_RetainedWithinHorizon ==
    call.op = "UpdateCache" =>
        \A i \in 1 .. Len(History(call.node)) :
            History(call.node)[i].Timestamp > call.at - RetentionHorizon

(* the third write, all three on n1, a week after the start: the two       *)
(* earlier events are gone and the written one is kept                     *)
C1_Witness ==
    /\ call.op = "UpdateCache"
    /\ call.at = RetentionHorizon
    /\ recorded = MaxRecords
    /\ DOMAIN nodePodHistory = {call.node}
    /\ DOMAIN lastUpdated = {call.node}
    /\ lastUpdated[call.node] = call.at
    /\ History(call.node) = <<call.ev>>
    /\ call.ev.Timestamp = call.at

(* C3: the slice GetNodeMetrics returns for a node holds the retained      *)
(* events in the order they were recorded: an event recorded earlier       *)
(* stands before every event recorded later.                               *)
C3_QueryInRecordedOrder ==
    \A n \in Nodes :
        LET q == Elems(arrays, GetNodeMetrics(n))
        IN \A i, j \in 1 .. Len(q) : i < j => q[i].serial < q[j].serial

(* a query that returns the first and the third recorded event, the second *)
(* (recorded between them on the same node) pruned                         *)
C3_Witness ==
    /\ call.op = "GetNodeMetrics"
    /\ DOMAIN nodePodHistory = {call.node}
    /\ recorded = MaxRecords
    /\ LET q == Elems(arrays, GetNodeMetrics(call.node))
       IN /\ Len(q) = 2
          /\ q[1].serial = 1
          /\ q[2].serial = MaxRecords
          /\ q[2].Timestamp >= RetentionHorizon

(* C4, as claimed: a query never returns an event whose age at the time of *)
(* the query exceeds the retention horizon.                                *)
C4_Original ==
    call.op = "GetNodeMetrics" =>
        \A i \in 1 .. Len(History(call.node)) :
            call.at - History(call.node)[i].Timestamp <= RetentionHorizon

(* C4, amended: a query returns no event whose age had reached the         *)
(* retention horizon at the last UpdateCache of that node (the time kept   *)
(* in lastUpdated).                                                        *)
C4_PrunedAtLastWrite ==
    call.op = "GetNodeMetrics" =>
        \A i \in 1 .. Len(History(call.node)) :
            /\ call.node \in DOMAIN lastUpdated
            /\ History(call.node)[i].Timestamp
                   > lastUpdated[call.node] - RetentionHorizon

(* a query a week after a write that pruned: it returns the newer event    *)
(* only, the event first recorded being gone                               *)
C4_Witness ==
    /\ call.op = "GetNodeMetrics"
    /\ call.at = MaxTime
    /\ call.node \in DOMAIN lastUpdated
    /\ lastUpdated[call.node] = RetentionHorizon
    /\ Len(History(call.node)) = 1
    /\ History(call.node)[1].serial = 2
    /\ History(call.node)[1].Timestamp = RetentionHorizon
    /\ DOMAIN nodePodHistory = {call.node}

InWindow(ts, timeWindow, t) == t - timeWindow < ts /\ ts <= t

(* C5: right after UpdateCache(e), for every window, GetNodeAnalysis of    *)
(* e's node counts e exactly when e.Timestamp lies in the window, taken    *)
(* here as now - window < Timestamp <= now (the lower edge as After has    *)
(* it).                                                                    *)
C5_CountedIffInWindow ==
    (call.op = "UpdateCache" /\ call.at = now) =>
        \A w \in Windows :
            InWindow(call.ev.Timestamp, w, now)
                <=> /\ call.ev.serial \in Serials(RecentMetrics(call.node, w, now))
                    /\ GetNodeAnalysis(call.node, w, now).TotalPods
                           = Len(RecentMetrics(call.node, w, now))

FreshRate(count, metrics) == IF Len(metrics) = 0 THEN RZero ELSE Rat(count, Len(metrics))

(* C6: when UpdateCache has returned, the stored failure rate and restart  *)
(* rate of the written node are those of its current event list, an empty  *)
(* list giving 0.                                                          *)
C6_EagerMatchesHistory ==
    call.op = "UpdateCache" =>
        LET h == History(call.node)
        IN /\ GetFailureRate(call.node) = FreshRate(CountFailed(h), h)
           /\ GetRestartRate(call.node) = FreshRate(SumRestarts(h), h)

InUnitInterval(x) == RLeq(RZero, x) /\ RLeq(x, ROne)

(* C7: for every node and window the FailureRate of GetNodeAnalysis and    *)
(* the stored failure rate lie in [0, 1].                                  *)
C7_FailureRateInUnitInterval ==
    \A n \in Nodes :
        /\ InUnitInterval(GetFailureRate(n))
        /\ \A w \in Windows : InUnitInterval(GetNodeAnalysis(n, w, now).FailureRate)

(* a node whose stored rate is 1/2 while its 24h analysis sees only the    *)
(* failed pod                                                              *)
C7_Witness ==
    \E n \in Nodes :
        /\ GetFailureRate(n) = Rat(1, 2)
        /\ GetNodeAnalysis(n, DayWindow, now).TotalPods = 1
        /\ GetNodeAnalysis(n, DayWindow, now).FailureRate = ROne
        /\ GetNodeAnalysis(n, RetentionHorizon, now).FailureRate = Rat(1, 2)

---------------------------------------------------------------------------
(* Properties of the interleaved calls, checked under SpecConc *)

(* C2: a read that runs while UpdateCache calls are under way yields what   *)
(* the cache held when the last UpdateCache returned, never the state       *)
(* between the append, the pruning and the recomputation; and the slice     *)
(* GetNodeMetrics returned keeps the content it had when it was returned.   *)
C2_ReadsSeeWholeRecords ==
    \A p \in Readers :
        /\ proc[p].pc = "runlock" =>
               proc[p].obs = Observe(proc[p].op, proc[p].node, proc[p].window,
                                     proc[p].at, committed)
        /\ (proc[p].pc \in {"runlock", "idle"} /\ proc[p].op = "GetNodeMetrics") =>
               Elems(arrays, proc[p].slice) = proc[p].obs.events

(* an UpdateCache has appended its event in place, into the array of the   *)
(* three-event slice a reader was given earlier, and has not pruned yet;   *)
(* the other reader still holds the one-event slice it was given after the *)
(* first UpdateCache                                                       *)
C2_Witness ==
    /\ mutex.writer # "none"
    /\ proc[mutex.writer].pc = "clean"
    /\ \E p \in Readers :
           /\ proc[p].pc = "idle"
           /\ proc[p].op = "GetNodeMetrics"
           /\ proc[p].slice.arr = GetNodeMetrics(proc[p].node).arr
           /\ proc[p].slice.len = 3
           /\ GetNodeMetrics(proc[p].node).len = 4
    /\ \E p \in Readers :
           /\ proc[p].pc = "idle"
           /\ proc[p].op = "GetNodeMetrics"
           /\ proc[p].slice.len = 1
           /\ proc[p].slice.arr # GetNodeMetrics(proc[p].node).arr
           /\ proc[p].obs.events[1].serial = 1

---------------------------------------------------------------------------
(* Properties of PredictBestNode, checked under SpecPredict *)

Returned == pred.called /\ pred.err = "nil"

(* C8: for a listing that is not empty, PredictBestNode returns a node, and *)
(* no listed node has a score greater than the score of the returned one.   *)
C8_ReturnsMaximum ==
    (Returned /\ Len(pred.scores) > 0) =>
        /\ ~pred.nil
        /\ \A i \in 1 .. Len(pred.scores) : RLeq(pred.scores[i], pred.best.Score)

IsMax(sc, i) == \A j \in 1 .. Len(sc) : RLeq(sc[j], sc[i])

(* C9: when several listed nodes share the greatest score, PredictBestNode  *)
(* returns the first of them in the listing.                                *)
C9_FirstOfTheBest ==
    (Returned /\ \E i, j \in 1 .. Len(pred.scores) :
                     i # j /\ IsMax(pred.scores, i) /\ pred.scores[i] = pred.scores[j]) =>
        /\ ~pred.nil
        /\ \E i \in 1 .. Len(pred.scores) :
               /\ IsMax(pred.scores, i)
               /\ \A j \in 1 .. i - 1 : pred.scores[j] # pred.scores[i]
               /\ pred.best.NodeName = cluster[i].Name

(* C10: PredictBestNode returns a NodeScore or an error, never neither.     *)
C10_NodeScoreOrError ==
    pred.called => (pred.nil <=> pred.err # "nil")

---------------------------------------------------------------------------
(* Properties of makeFinalDecision, checked under SpecFinal and            *)
(* SpecFinalLive                                                           *)

Decided == final.pc = "done"

NoRemoteResult(resp) ==
    resp.kind = "error" \/ resp.status # StatusOK \/ resp.kind = "garbage"

HasNumber(resp, key) == key \in DOMAIN resp.body /\ resp.body[key].type = "number"

(* C11: when the request fails, the status is not OK, the body does not    *)
(* decode or the answer has no numeric score, makeFinalDecision returns    *)
(* the Go score as it was given, with the reason of the Go-only decision.  *)
C11_FallsBackToGoScore ==
    (Decided /\ (NoRemoteResult(final.resp) \/ ~HasNumber(final.resp, "score"))) =>
        /\ final.score = final.goScore
        /\ final.reason = Reason("Sadece Go algoritmasi kullanildi", <<>>)

(* an OK answer that decodes, whose score is a string beside a numeric     *)
(* confidence: the Go score 150 comes back                                 *)
C11_Witness ==
    /\ Decided
    /\ final.resp.kind = "json" /\ final.resp.status = StatusOK
    /\ DOMAIN final.resp.body = {"score", "confidence"}
    /\ final.resp.body["score"] = JString
    /\ final.resp.body["confidence"] = JNumber(ROne)
    /\ final.goScore = RInt(150)
    /\ final.score = RInt(150)

Confidence(resp) ==
    IF HasNumber(resp, "confidence") THEN resp.body["confidence"].num ELSE Rat(1, 2)

(* C12: an answer with a numeric score R gives R * confidence * 0.7 +      *)
(* goScore * 0.3, the confidence being the answer's when it is a number    *)
(* and 0.5 otherwise; with confidence 1 that is R * 0.7 + goScore * 0.3.   *)
C12_BlendLaw ==
    (Decided /\ ~NoRemoteResult(final.resp) /\ HasNumber(final.resp, "score")) =>
        LET R == final.resp.body["score"].num
            c == Confidence(final.resp)
        IN /\ final.score = RAdd(RMul(RMul(R, c), Rat(7, 10)),
                                 RMul(final.goScore, Rat(3, 10)))
           /\ c = ROne => final.score = RAdd(RMul(R, Rat(7, 10)),
                                             RMul(final.goScore, Rat(3, 10)))

(* score 100 without a confidence, Go score 20: 100 * 0.5 * 0.7 + 6 = 41   *)
C12_Witness ==
    /\ Decided
    /\ final.resp.kind = "json" /\ final.resp.status = StatusOK
    /\ DOMAIN final.resp.body = {"score"}
    /\ final.resp.body["score"] = JNumber(RInt(100))
    /\ final.goScore = RInt(20)
    /\ final.score = RInt(41)

(* C20: a call of makeFinalDecision whose request is out returns in the    *)
(* end, whether the service answers or not.                                *)
C20_DecisionReturns == (final.pc = "waiting") ~> Decided

---------------------------------------------------------------------------
(* Properties of calculateNodeScore, checked under SpecPredict *)

Perfect(e) ==
    /\ HasReadyTrue(e.node.Conditions) /\ e.node.Taints = 0
    /\ e.node.cpu > 0 /\ e.node.memory > 0
    /\ e.live.cpu = 0 /\ e.live.mem = 0
    /\ e.analysis.TotalPods > 0 /\ e.analysis.FailedPods = 0
    /\ e.analysis.AverageRestartCount = RZero
    /\ RLess(RInt(24), e.analysis.AverageLifetime)

(* C14, as claimed: with the reference weights no node scores above 130.   *)
C14_Original ==
    Returned => \A i \in 1 .. Len(pred.evals) :
                    RLeq(pred.evals[i].score, RInt(130))

(* C14, amended: with the reference weights no node scores above 150, and  *)
(* a ready, untainted node with no CPU and memory in use, whose pods of the *)
(* last 24 hours never failed, never restarted and are older than a day,   *)
(* scores exactly 150 = 30 + 30 + 20 + 10 + 20 + 20 + 10 + 10.             *)
C14_MaximumIs150 ==
    Returned => \A i \in 1 .. Len(pred.evals) :
                    /\ RLeq(pred.evals[i].score, RInt(150))
                    /\ Perfect(pred.evals[i]) => pred.evals[i].score = RInt(150)

C14_Witness ==
    /\ Returned
    /\ \E i \in 1 .. Len(pred.evals) :
           /\ Perfect(pred.evals[i])
           /\ pred.evals[i].score = RInt(150)
           /\ pred.best.Score = RInt(150)

---------------------------------------------------------------------------
(* Properties of the tiers of analyzePodMetrics, checked under SpecTiers *)

Analyzed == probe.fn = "analyzePodMetrics"

(* C15: failed out of total events (total > 0) add FailedPodsWeight when   *)
(* failed/total < 0.05, half of it when 0.05 <= failed/total < 0.1, and    *)
(* take FailedPodsWeight away when failed/total >= 0.1, 0.1 itself         *)
(* included.                                                               *)
C15_FailureTierBoundaries ==
    (Analyzed /\ probe.input.total > 0) =>
        LET f == probe.input.failed
            n == probe.input.total
            term == probe.output.Terms[2]
        IN /\ 20 * f < n => term = RInt(FailedPodsWeight)
           /\ (20 * f >= n /\ 10 * f < n) => term = Rat(FailedPodsWeight, 2)
           /\ 10 * f >= n => term = RInt(0 - FailedPodsWeight)

(* 1 failed of 10 events: the rate is 0.1 and the weight is taken away *)
C15_Witness ==
    /\ Analyzed
    /\ probe.input.total = 10 /\ probe.input.failed = 1
    /\ probe.input.analysis.FailureRate = Rat(1, 10)
    /\ probe.output.Terms[2] = RInt(0 - FailedPodsWeight)
    /\ probe.output.Reasons[2] = Reason("Yuksek basarisizlik orani", <<Rat(1, 10)>>)

---------------------------------------------------------------------------
(* Properties of the reads of the cache, checked under Spec *)

InClosedWindow(ts, timeWindow, t) == t - timeWindow <= ts /\ ts <= t

AnalysisRead == call.op = "GetNodeAnalysis" /\ call.at = now

(* C16: the events GetNodeAnalysis computes from are exactly the events of *)
(* the node with now - window <= Timestamp <= now: an older event is left   *)
(* out, and so is an event stamped later than now.                          *)
C16_KeepsClosedWindow ==
    AnalysisRead =>
        Serials(RecentMetrics(call.node, call.window, now))
            = {History(call.node)[i].serial :
                   i \in {j \in 1 .. Len(History(call.node)) :
                             InClosedWindow(History(call.node)[j].Timestamp,
                                            call.window, now)}}

(* C17: when no event of the node lies in the window (no event at all, or  *)
(* every event outside it), GetNodeAnalysis returns the zero value: every   *)
(* number 0, no recommendation.                                             *)
C17_ZeroOutsideWindow ==
    (AnalysisRead /\ \A i \in 1 .. Len(History(call.node)) :
                     ~InClosedWindow(History(call.node)[i].Timestamp, call.window, now))
        => LET a == GetNodeAnalysis(call.node, call.window, now)
           IN /\ a.TotalPods = 0 /\ a.FailedPods = 0 /\ a.SuccessfulPods = 0
              /\ a.FailureRate = RZero /\ a.AverageRestartCount = RZero
              /\ a.AverageLifetime = RZero /\ a.StabilityScore = RZero
              /\ a.Recommendations = <<>>

(* C18: GetFailureRate and GetRestartRate return 0 for a node no           *)
(* UpdateCache was ever called for, whatever was recorded for other nodes.  *)
C18_UnknownNodeRatesZero ==
    \A n \in Nodes :
        n \notin DOMAIN nodePodHistory =>
            /\ GetFailureRate(n) = RZero
            /\ GetRestartRate(n) = RZero

(* the failure rate of a node never written is read after three failed     *)
(* pods were recorded for the other node, whose rates are 1 and 3           *)
C18_Witness ==
    /\ call.op = "GetFailureRate"
    /\ call.node \notin DOMAIN nodePodHistory
    /\ recorded = MaxRecords
    /\ \E m \in Nodes \ {call.node} :
           /\ Len(History(m)) = MaxRecords
           /\ GetFailureRate(m) = ROne
           /\ GetRestartRate(m) = RInt(3)

---------------------------------------------------------------------------
(* Properties of UpdateCache on events of any status, checked under        *)
(* SpecRecord                                                              *)

(* C19: an event whose Status is no pod phase and whose Timestamp is       *)
(* within the retention horizon is kept as it was given: when UpdateCache   *)
(* has returned it is the last element of what GetNodeMetrics returns for   *)
(* its node; and every event in a history has the status, restart count   *)
(* and times of an event that was given.                                    *)
C19_UnknownStatusStored ==
    /\ (call.op = "UpdateCache" /\ call.ev.Status \notin KnownPhases
           /\ call.ev.Timestamp > call.at - RetentionHorizon)
          => LET q == Elems(arrays, GetNodeMetrics(call.node))
             IN Len(q) > 0 /\ q[Len(q)] = call.ev
    /\ \A n \in Nodes : \A i \in 1 .. Len(History(n)) :
           LET m == History(n)[i]
           IN /\ m.NodeName = n
              /\ [Status |-> m.Status, RestartCount |-> m.RestartCount] \in AnyShapes
              /\ m.Timestamp - m.CreatedAt \in TsOffsets

(* a query after two writes of one node, a week apart: the first event,    *)
(* of status "Evicted", was pruned by the second write, whose event has an  *)
(* empty status and is what the query returns                               *)
C19_Witness ==
    /\ call.op = "GetNodeMetrics"
    /\ recorded = MaxAnyRecords
    /\ now = RetentionHorizon
    /\ Len(History(call.node)) = 1
    /\ History(call.node)[1].Status = ""
    /\ History(call.node)[1].serial = MaxAnyRecords
    /\ History(call.node)[1].Timestamp = RetentionHorizon

---------------------------------------------------------------------------
(* Properties of makeFinalDecision beside the writers, checked under       *)
(* SpecBlend                                                               *)

(* C21: while the request of getAIAnalysis is out, the goroutine that made *)
(* it holds the cache mutex neither for reading nor for writing, and an    *)
(* UpdateCache can take the mutex as soon as no other goroutine holds it.  *)
C21_NoLockWhileWaiting ==
    final.pc = "waiting" =>
        /\ Caller \notin mutex.readers
        /\ mutex.writer # Caller
        /\ (mutex.writer = "none" /\ recorded < MaxConcRecords) =>
               \A p \in Writers :
                   ENABLED (\E e \in ConcEvents(now, recorded + 1) : Lock(p, e))

(* the request is out and has no answer yet, and an UpdateCache that began *)
(* on an empty cache is past its append and its pruning                    *)
C21_Witness ==
    /\ final.pc = "waiting"
    /\ final.resp.kind = "none"
    /\ mutex.writer \in Writers
    /\ proc[mutex.writer].pc = "stats"
    /\ recorded = 1
    /\ Len(History(final.node)) = 1

---------------------------------------------------------------------------
(* Properties of the mutex and of the appends, checked under SpecWriters *)

InWrite(p) == proc[p].pc \in {"load", "store", "clean", "stats"}

EventsOf(seq) == {seq[i] : i \in 1 .. Len(seq)}

(* C22: the goroutines inside a read are those that hold the read lock,    *)
(* and there may be several; while a goroutine is inside UpdateCache it    *)
(* alone holds the mutex: no reader and no other writer is inside.  The    *)
(* event an UpdateCache appends is in the history when the append is done, *)
(* and an event in the history stays there in every step but a pruning     *)
(* that finds it a retention horizon old: of two UpdateCache calls for one *)
(* node neither loses the other's event.                                   *)
C22_WritersSerialized ==
    /\ [](/\ mutex.readers = {p \in Readers : proc[p].pc = "runlock"}
          /\ \A p \in Writers : InWrite(p) => (mutex.writer = p /\ mutex.readers = {})
          /\ \A p, q \in Writers : (InWrite(p) /\ InWrite(q)) => p = q)
    /\ [][/\ \A p \in Writers :
                (proc[p].pc = "store" /\ proc'[p].pc = "clean") =>
                    proc[p].ev \in EventsOf(History(proc[p].node)')
          /\ \A n \in ConcNodes : \A e \in EventsOf(History(n)) :
                \/ e \in EventsOf(History(n)')
                \/ /\ e.Timestamp <= now - RetentionHorizon
                   /\ \E p \in Writers : proc[p].pc = "clean" /\ proc'[p].pc = "stats"]_vars

(* both readers are inside a read at once, after the writers have         *)
(* recorded three events for n1 in turn: all three are in the history      *)
C22_Witness ==
    /\ mutex.readers = Readers
    /\ recorded = MaxWrites
    /\ LET h == History("n1")
       IN /\ Len(h) = MaxWrites
          /\ h[1].PodName = "w1" /\ h[2].PodName = "w2" /\ h[3].PodName = "w1"
          /\ \A i \in 1 .. MaxWrites : h[i].serial = i

---------------------------------------------------------------------------
(* Properties of a placement request, checked under SpecCancelLive *)

(* C23: when the context of a placement request is cancelled while a call  *)
(* made for it is under way, the call is given up and the request returns, *)
(* whether the call is answered or not.                                    *)
C23_CancelAborts == request.cancelled ~> (request.pc = "done")

---------------------------------------------------------------------------
(* Properties of the lifetime of an event, checked under Spec *)

(* C24: in every step, an event that leaves the history of a node leaves   *)
(* it in an UpdateCache for that node and has a Timestamp at or before     *)
(* (time of the write - 7 days); the event given to an UpdateCache is in   *)
(* the history afterwards when its Timestamp is later than that; and the   *)
(* only event that enters a history is the one given, unaltered, so the    *)
(* reads and the passing of time leave every stored event as it is.        *)
C24_LeavesOnlyByPruning ==
    [][\A n \in Nodes :
          LET before == EventsOf(History(n))
              after == EventsOf(History(n)')
              written == /\ call'.op = "UpdateCache" /\ call'.node = n
                         /\ recorded' = recorded + 1
          IN /\ \A e \in before \ after :
                    written /\ e.Timestamp <= now - RetentionHorizon
             /\ \A e \in after \ before : written /\ e = call'.ev
             /\ (written /\ call'.ev.Timestamp > now - RetentionHorizon)
                    => call'.ev \in after]_vars

(* the third write, a week after two writes of n1 and of n2 at the start:  *)
(* the event of the written node has left, being 7 days old, the event of  *)
(* the other node, as old, is still there                                  *)
C24_Witness ==
    /\ call.op = "UpdateCache"
    /\ call.at = RetentionHorizon
    /\ recorded = MaxRecords
    /\ History(call.node) = <<call.ev>>
    /\ \E m \in Nodes \ {call.node} :
           /\ Len(History(m)) = 1
           /\ History(m)[1].Timestamp = 0
           /\ History(m)[1].serial < MaxRecords

---------------------------------------------------------------------------
(* Properties of the collector, checked under SpecCollectLive *)

Unrecorded == IF dc.pc = "sendPod" THEN Tail(dc.pods) ELSE dc.pods

(* C25: when the ticker has fired, every pod of the listing is given to    *)
(* UpdateCache in the end and the collector comes back to wait for the     *)
(* next tick, whether the listener empties the channel or not.             *)
C25_CollectorNotBlocked ==
    /\ (Unrecorded # <<>>) ~> (Unrecorded = <<>>)
    /\ (dc.pc # "select") ~> (dc.pc = "select")

Scored == probe.fn = "calculateNodeScore"

UsageMissing == probe.input.metricsClient = "nil" \/ probe.input.node.usage.err

(* C26: when the scheduler has no metrics client or the read of the usage  *)
(* fails, calculateNodeScore still returns: a node with CPU capacity gets  *)
(* CPUWeight as its CPU term, a node with memory capacity MemoryWeight as  *)
(* its memory term, both reported with a usage of 0, and the readiness,    *)
(* taint and history terms are what they are with a usage.                 *)
C26_MissingUsageIsZero ==
    Scored /\ UsageMissing =>
        LET node == probe.input.node
            out == probe.output
        IN /\ node.cpu > 0 =>
                /\ out.terms[1] = RInt(CPUWeight)
                /\ out.reason[2] = Reason("CPU skoru",
                                          <<RInt(CPUWeight), RZero, RInt(node.cpu)>>)
           /\ node.memory > 0 =>
                /\ out.terms[2] = RInt(MemoryWeight)
                /\ \E i \in 2 .. 3 :
                      out.reason[i] = Reason("Memory skoru",
                                             <<RInt(MemoryWeight), RZero,
                                               RInt(node.memory)>>)
           /\ out.terms[3] = IF HasReadyTrue(node.Conditions)
                             THEN RInt(NodeReadyWeight) ELSE RZero
           /\ out.terms[4] = IF node.Taints = 0 THEN RInt(TaintWeight) ELSE RZero
           /\ out.terms[5] = probe.input.podAnalysis.Score
           /\ out.score = RAdd(RAdd(out.terms[1], out.terms[2]),
                               RAdd(RAdd(out.terms[3], out.terms[4]), out.terms[5]))

(* a node whose usage would be over its CPU capacity, scored by a          *)
(* scheduler without metrics client                                        *)
C26_Witness ==
    /\ Scored
    /\ probe.input.metricsClient = "nil"
    /\ probe.input.node.usage = [err |-> FALSE, cpu |-> 6, mem |-> 2]
    /\ probe.input.node.cpu = 4 /\ probe.input.node.memory = 8
    /\ probe.output.terms[1] = RInt(CPUWeight)
    /\ probe.output.terms[2] = RInt(MemoryWeight)

(* C27: when PredictBestNode returns a node, makeFinalDecision has run for *)
(* that node on the score calculateNodeScore gave it, and the score of the *)
(* result is the score makeFinalDecision returned.                         *)
C27_SelectsOnFinalized ==
    Returned /\ ~pred.nil =>
        /\ final.pc = "done"
        /\ final.node = pred.best.NodeName
        /\ \E i \in 1 .. Len(pred.evals) :
              /\ pred.evals[i].node.Name = pred.best.NodeName
              /\ final.goScore = pred.evals[i].score
        /\ pred.best.Score = final.score

(* the texts of the trace entries that belong to the readiness, the taint *)
(* and the history terms of the scored node                                *)
LaterTexts ==
    {"Node hazir", "Node hazir degil", "Taint yok", "Taint var"}
    \cup {probe.input.podAnalysis.Reasons[k].text :
              k \in 1 .. Len(probe.input.podAnalysis.Reasons)}

(* whether the trace, after its total, has an entry that belongs to none   *)
(* of the terms named by others                                            *)
Noted(others) ==
    \E i \in 2 .. Len(probe.output.reason) :
        probe.output.reason[i].text \notin others \cup LaterTexts

(* C28: a node without CPU capacity gets 0 as its CPU term and the trace   *)
(* has an entry for the CPU term all the same; likewise for the memory.    *)
C28_SkippedTermNoted ==
    Scored =>
        /\ probe.input.node.cpu = 0 =>
                probe.output.terms[1] = RZero /\ Noted({"Memory skoru"})
        /\ probe.input.node.memory = 0 =>
                probe.output.terms[2] = RZero /\ Noted({"CPU skoru"})

(* the place of a trace entry in the order CPU, memory, readiness, taint,  *)
(* stability, failure rate, restart, lifetime; 0 for the total             *)
TermOfText(text) ==
    CASE text = "CPU skoru" -> 1
      [] text = "Memory skoru" -> 2
      [] text \in {"Node hazir", "Node hazir degil"} -> 3
      [] text \in {"Taint yok", "Taint var"} -> 4
      [] text \in {"Yuksek kararlilik", "Orta kararlilik", "Dusuk kararlilik"} -> 5
      [] text \in {"Dusuk basarisizlik orani", "Orta basarisizlik orani",
                   "Yuksek basarisizlik orani"} -> 6
      [] text \in {"Dusuk restart orani", "Orta restart orani",
                   "Yuksek restart orani"} -> 7
      [] text \in {"Uzun pod yasam suresi", "Normal pod yasam suresi",
                   "Kisa pod yasam suresi"} -> 8
      [] OTHER -> 0

TracePlaces ==
    [i \in 1 .. Len(probe.output.reason) |-> TermOfText(probe.output.reason[i].text)]

(* C29: the score calculateNodeScore returns is the sum of its CPU, memory, *)
(* readiness, taint and history terms; its trace starts with that total and *)
(* goes on with the entries of the terms in the order CPU, memory,          *)
(* readiness, taint, stability, failure rate, restart, lifetime, one entry  *)
(* for each term from the readiness on and one for each resource with       *)
(* capacity; the readiness term is NodeReadyWeight or 0, however many       *)
(* conditions are Ready and True.                                           *)
C29_TotalAndTraceOrder ==
    Scored =>
        LET node == probe.input.node
            out == probe.output
        IN /\ out.score = RAdd(RAdd(out.terms[1], out.terms[2]),
                               RAdd(RAdd(out.terms[3], out.terms[4]), out.terms[5]))
           /\ out.terms[5] = probe.input.podAnalysis.Score
           /\ out.terms[4] \in {RZero, RInt(TaintWeight)}
           /\ out.terms[3] = IF HasReadyTrue(node.Conditions)
                             THEN RInt(NodeReadyWeight) ELSE RZero
           /\ out.reason[1] = Reason("Toplam skor", <<out.score>>)
           /\ \A i \in 2 .. Len(out.reason) - 1 : TracePlaces[i] < TracePlaces[i + 1]
           /\ TracePlaces[2] > 0
           /\ {TracePlaces[i] : i \in 2 .. Len(out.reason)}
                  = (3 .. 8) \cup (IF node.cpu > 0 THEN {1} ELSE {})
                            \cup (IF node.memory > 0 THEN {2} ELSE {})

(* a node with two Ready conditions, both True, and both capacities *)
C29_Witness ==
    /\ Scored
    /\ probe.input.node.Conditions = <<[Type |-> "Ready", Status |-> "True"],
                                       [Type |-> "Ready", Status |-> "True"]>>
    /\ probe.input.node.cpu > 0 /\ probe.input.node.memory > 0
    /\ probe.output.terms[3] = RInt(NodeReadyWeight)
    /\ Len(probe.output.reason) = 9

(* C30: the score analyzePodMetrics returns is the sum of four amounts:    *)
(* FailedPodsWeight for a stability above 0.8, half of it for a stability  *)
(* above 0.6 and up to 0.8, else 0; RestartWeight for an average of at     *)
(* most one restart, 0 for more than one and at most two, -RestartWeight   *)
(* above two; 10 for an average lifetime above 24 hours, 0 for one above   *)
(* one hour and up to 24, -10 up to one hour; and the failure-rate amount. *)
C30_HistoryTiers ==
    Analyzed =>
        LET a == probe.input.analysis
            out == probe.output
        IN /\ out.Terms[1] =
                  IF RLess(Rat(8, 10), a.StabilityScore) THEN RInt(FailedPodsWeight)
                  ELSE IF RLess(Rat(6, 10), a.StabilityScore)
                  THEN Rat(FailedPodsWeight, 2)
                  ELSE RZero
           /\ out.Terms[3] =
                  IF RLeq(a.AverageRestartCount, ROne) THEN RInt(RestartWeight)
                  ELSE IF RLeq(a.AverageRestartCount, RInt(2)) THEN RZero
                  ELSE RInt(0 - RestartWeight)
           /\ out.Terms[4] =
                  IF RLess(RInt(24), a.AverageLifetime) THEN RInt(10)
                  ELSE IF RLess(ROne, a.AverageLifetime) THEN RZero
                  ELSE RInt(0 - 10)
           /\ out.Terms[2] = failureTier(a.FailureRate).score
           /\ out.Score = RAdd(RAdd(out.Terms[1], out.Terms[2]),
                               RAdd(out.Terms[3], out.Terms[4]))

(* ten events, three failed, one restart each, every pod 24 hours old:     *)
(* stability exactly 0.6, average restart exactly 1, lifetime exactly 24h  *)
C30_Witness ==
    /\ Analyzed
    /\ probe.input.analysis.StabilityScore = Rat(6, 10)
    /\ probe.input.analysis.AverageRestartCount = ROne
    /\ probe.input.analysis.AverageLifetime = RInt(24)
    /\ probe.output.Terms = <<RZero, RInt(0 - FailedPodsWeight), RInt(RestartWeight),
                              RZero>>

(* C31: when UpdateCache has returned, lastUpdated has an entry for the    *)
(* written node and the entry is the time of that call, whatever the       *)
(* Timestamp of the event.                                                 *)
C31_LastUpdatedIsWriteTime ==
    call.op = "UpdateCache" =>
        /\ call.node \in DOMAIN lastUpdated
        /\ lastUpdated[call.node] = call.at

Analysed == probe.fn = "calculateNodeAnalysis"

(* C33: the Recommendations of calculateNodeAnalysis on total > 0 events,  *)
(* failed of them Failed and with restarts restarts in all, are, in this   *)
(* order: one for a failure rate above 0.1, one for an average restart     *)
(* count above 2, one for a stability below 0.7; a value equal to its      *)
(* threshold adds none.                                                    *)
C33_StrictRecommendations ==
    Analysed /\ probe.input.total > 0 =>
        LET in == probe.input
        IN probe.output.Recommendations =
              (IF 10 * in.failed > in.total THEN <<"high failure rate">> ELSE <<>>)
              \o (IF in.restarts > 2 * in.total THEN <<"high restart rate">> ELSE <<>>)
              \o (IF 100 * in.total - 100 * in.failed - 10 * in.restarts < 70 * in.total
                  THEN <<"low stability">> ELSE <<>>)

(* ten events, one failed, five restarts in all: failure rate 0.1, average *)
(* restart 0.5, stability 0.85, no recommendation                          *)
C33_Witness ==
    /\ Analysed
    /\ probe.input = [total |-> 10, failed |-> 1, restarts |-> 5]
    /\ probe.output.FailureRate = Rat(1, 10)
    /\ probe.output.AverageRestartCount = Rat(1, 2)
    /\ probe.output.StabilityScore = Rat(85, 100)
    /\ probe.output.Recommendations = <<>>

(* C34: a call of UpdateCache leaves every node but the one of its event   *)
(* as it was: the same events in the same order, the same failure rate,    *)
(* restart rate and lastUpdated, present in the maps or absent as before;   *)
(* the event written is in the history of no other node.                   *)
C34_WriteTouchesOneNode ==
    [][call'.op = "UpdateCache" /\ recorded' = recorded + 1 =>
          \A n \in Nodes \ {call'.node} :
              /\ History(n)' = History(n)
              /\ (n \in DOMAIN nodePodHistory') = (n \in DOMAIN nodePodHistory)
              /\ call'.ev \notin EventsOf(History(n)')
              /\ (n \in DOMAIN failureRates') = (n \in DOMAIN failureRates)
              /\ GetFailureRate(n)' = GetFailureRate(n)
              /\ (n \in DOMAIN restartRates') = (n \in DOMAIN restartRates)
              /\ GetRestartRate(n)' = GetRestartRate(n)
              /\ (n \in DOMAIN lastUpdated') = (n \in DOMAIN lastUpdated)
              /\ MapGet(lastUpdated, n, 0)' = MapGet(lastUpdated, n, 0)]_vars

(* the second write, a week after the first and of the other node: the     *)
(* failed event of the first node, now 7 days old, its rates and its       *)
(* lastUpdated are as the first write left them                            *)
C34_Witness ==
    /\ call.op = "UpdateCache"
    /\ call.at = RetentionHorizon
    /\ recorded = 2
    /\ \E m \in Nodes \ {call.node} :
           /\ Len(History(m)) = 1
           /\ History(m)[1].Timestamp = 0
           /\ History(m)[1].Status = "Failed"
           /\ GetFailureRate(m) = ROne
           /\ GetRestartRate(m) = RInt(3)
           /\ MapGet(lastUpdated, m, 0 - 1) = 0

CacheReads == {"GetNodeMetrics", "GetFailureRate", "GetRestartRate", "GetNodeAnalysis"}

IsFailed(m) == m.Status = "Failed"

IsNotFailed(m) == m.Status # "Failed"

(* C36: for every node and window whose recent events are not none, the    *)
(* analysis has TotalPods the number of these events, FailedPods the       *)
(* number of them whose Status is "Failed" and SuccessfulPods the number   *)
(* of all the others, whatever their Status; the two add up to TotalPods.  *)
C36_FailedExactlyStatusFailed ==
    \A n \in Nodes, w \in Windows :
        LET recent == RecentMetrics(n, w, now)
            a == GetNodeAnalysis(n, w, now)
        IN recent # <<>> =>
              /\ a.TotalPods = Len(recent)
              /\ a.FailedPods = Len(SelectSeq(recent, IsFailed))
              /\ a.SuccessfulPods = Len(SelectSeq(recent, IsNotFailed))
              /\ a.SuccessfulPods + a.FailedPods = a.TotalPods

(* a failed event and an event of a status that is no pod phase, both of   *)
(* one node and in the window: one failed, one successful                  *)
C36_Witness ==
    \E n \in Nodes :
        LET recent == RecentMetrics(n, DayWindow, now)
            a == GetNodeAnalysis(n, DayWindow, now)
        IN /\ Len(recent) = 2
           /\ {recent[1].Status, recent[2].Status} = {"Failed", "Evicted"}
           /\ a.FailedPods = 1 /\ a.SuccessfulPods = 1 /\ a.TotalPods = 2

(* the entries of a list that have every field of PodMetrics as ev has it *)
Copies(metrics, ev) ==
    {i \in 1 .. Len(metrics) : [metrics[i] EXCEPT !.serial = 0] = [ev EXCEPT !.serial = 0]}

(* C37: a call of UpdateCache with an event inside the horizon adds one    *)
(* entry to the node's history even when entries with the same fields are  *)
(* there, so that k calls with the same event leave k entries; and the     *)
(* 7 day analysis counts in TotalPods every entry that is inside the       *)
(* window, entries with the same fields each on their own.                 *)
C37_RecordDoesNotDeduplicate ==
    /\ [](\A n \in Nodes :
             GetNodeAnalysis(n, RetentionHorizon, now).TotalPods
                 = Cardinality({i \in 1 .. Len(History(n)) :
                                   History(n)[i].Timestamp > now - RetentionHorizon}))
    /\ [][\A n \in Nodes :
             /\ call'.op = "UpdateCache" /\ call'.node = n /\ recorded' = recorded + 1
             /\ call'.ev.Timestamp > now - RetentionHorizon
             => Cardinality(Copies(History(n)', call'.ev))
                   = Cardinality(Copies(History(n), call'.ev)) + 1]_vars

(* the same failed pod recorded twice and a running one once: three        *)
(* entries, a failure rate of 2/3 and a restart rate of 6/3                *)
C37_Witness ==
    \E n \in Nodes :
        /\ Len(History(n)) = 3
        /\ \E i \in 1 .. 3 :
               /\ History(n)[i].Status = "Failed"
               /\ Cardinality(Copies(History(n), History(n)[i])) = 2
        /\ GetNodeAnalysis(n, RetentionHorizon, now).TotalPods = 3
        /\ GetNodeAnalysis(n, RetentionHorizon, now).FailureRate = Rat(2, 3)
        /\ GetFailureRate(n) = Rat(2, 3)
        /\ GetRestartRate(n) = RInt(2)

(* C38: for a node none of whose events is inside the last 24 hours,      *)
(* analyzePodMetrics reads the zero analysis and returns                   *)
(* FailedPodsWeight + RestartWeight - 10: nothing for the stability, which *)
(* is 0, FailedPodsWeight for the failure rate, RestartWeight for the      *)
(* restarts and -10 for the lifetime.                                      *)
C38_EmptyHistoryTerm ==
    \A n \in Nodes :
        RecentMetrics(n, DayWindow, now) = <<>> =>
            /\ GetNodeAnalysis(n, DayWindow, now) = ZeroNodeAnalysis
            /\ analyzePodMetrics(n, now).Terms
                  = <<RZero, RInt(FailedPodsWeight), RInt(RestartWeight),
                      RInt(0 - LifetimeBonus)>>
            /\ analyzePodMetrics(n, now).Score
                  = RInt(FailedPodsWeight + RestartWeight - LifetimeBonus)

(* a node whose only event is a failed one, a week old and still stored *)
C38_Witness ==
    \E n \in Nodes :
        /\ Len(History(n)) = 1
        /\ History(n)[1].Status = "Failed"
        /\ GetFailureRate(n) = ROne
        /\ RecentMetrics(n, DayWindow, now) = <<>>
        /\ analyzePodMetrics(n, now).Score = RInt(20)

(* C39: when UpdateCache has returned and no time has passed, the stored  *)
(* failure rate and restart rate of the written node are the FailureRate   *)
(* and the AverageRestartCount of its analysis over 7 days.                *)
C39_EagerAgreesWithAnalysis ==
    call.op = "UpdateCache" /\ call.at = now =>
        LET a == GetNodeAnalysis(call.node, RetentionHorizon, now)
        IN /\ GetFailureRate(call.node) = a.FailureRate
           /\ GetRestartRate(call.node) = a.AverageRestartCount

---------------------------------------------------------------------------
(* Properties of the cancelled goroutines, checked under SpecStopLive *)

(* C40: once its context is cancelled, the loop of DataCollector.Start     *)
(* returns in the end, and so does the loop of metricsListener, wherever   *)
(* the goroutine is when the context is cancelled, a collection pass that  *)
(* is sending to the metrics channel included.                             *)
C40_LoopsReturn ==
    /\ dc.done ~> (dc.pc = "returned")
    /\ listener.done ~> (listener.pc = "returned")

====
